---- MODULE Spec2Model ----
(***************************************************************************)
(* Communication core of sistema-camara-uart: the chunked, acknowledged    *)
(* file transfer protocols that share the serial link with the command     *)
(* dispatcher.                                                             *)
(*                                                                         *)
(* Part P: FileTransferProtocol (sender, src/src/file_transfer_protocol.py)*)
(*         against ClienteTransferenciaRobusto (receiver,                  *)
(*         src/scripts/cliente_transfer_robust.py).                        *)
(*                                                                         *)
(* The wire from sender to receiver is a byte stream kept as a sequence of *)
(* frames: a text line, a run of raw payload bytes, or the tail of a text  *)
(* line whose first bytes were taken by a binary read.  The wire from      *)
(* receiver to sender carries text lines only.                             *)
(*                                                                         *)
(* Part M: the senders that write raw chunks and wait for a confirmation   *)
(*         text, FileTransferManager._ejecutar_envio                       *)
(*         (src/src/file_transfer.py) and UARTHandler.transferir_archivo   *)
(*         (src/src/uart_handler.py), together with the reader thread of   *)
(*         UARTHandler that dispatches commands on the same port.  Text is *)
(*         kept as sequences of characters.                                *)
(*                                                                         *)
(* Part X: ClienteTransferCorregido._recibir_transferencia_automatica     *)
(*         (src/scripts/cliente_transfer_fixed.py), the receiver that      *)
(*         reads raw chunks with conexion.read and answers ACK, against a  *)
(*         sender that writes one raw chunk per confirmation.              *)
(*                                                                         *)
(* Part F: FileReceiver (src/src/file_transfer.py) fed with the header and *)
(*         the chunks that FileTransferManager._ejecutar_envio produces,   *)
(*         with the files of the destination directory as state.           *)
(*                                                                         *)
(* Part G: FileTransferManager as a manager of sessions: programar_envio,  *)
(*         the queue and the processor thread, cancelar_transferencia and  *)
(*         detener (src/src/file_transfer.py), with the descargar command  *)
(*         of the daemon (src/scripts/main_daemon.py).  What the peer      *)
(*         answers is the outcome of each wait.                            *)
(*                                                                         *)
(* Part K: recibir_archivo of src/cliente_transfer.py against a server     *)
(*         that writes lines and raw bytes.                                *)
(*                                                                         *)
(* Part D: UARTHandler as command dispatcher (src/src/uart_handler.py):    *)
(*         registrar_comando, the line framer _procesar_datos_recibidos,   *)
(*         ComandoUART.from_string and _procesar_comando, fed character by *)
(*         character.                                                      *)
(*                                                                         *)
(* Part L: the threads that write to the port and UARTHandler.lock:        *)
(*         enviar_mensaje, FileTransferManager._enviar_chunk and           *)
(*         FileTransferProtocol._enviar_chunk_con_verificacion.            *)
(*                                                                         *)
(* Part U: the connection state of UARTHandler: _bucle_lectura,            *)
(*         _bucle_heartbeat, _marcar_error_conexion, _intentar_reconexion, *)
(*         conectar, cambiar_baudrate and detener.                         *)
(*                                                                         *)
(* Parts F and G have further specifications: SpecA drives the methods of  *)
(* FileReceiver in any order, SpecH runs the history past max_historial,   *)
(* SpecGC runs the manager with callbacks that raise.                      *)
(*                                                                         *)
(* Each part has its own specification; the variables of the other parts   *)
(* rest at their initial values.                                           *)
(***************************************************************************)
EXTENDS Integers, Sequences, FiniteSets, TLC

\* ------------------------------------------------------------------ bounds
\* number of injected faults (lost lines, waits that expire early) per run
MaxFaults == 3
\* number of distinct file contents per size
MaxSeed == 1
\* number of transfers the manager is asked for per run
MaxSesiones == 2
\* number of descargar commands per run
MaxPedidos == 3
\* number of chunks of the largest file the manager sends
MaxChunksG == 2
\* readline calls without data are counted modulo MaxVacias + 1
MaxVacias == 2
\* number of writes of the server of part K per run
MaxServidor == 4
\* number of calls of the methods of FileReceiver that reply, per run
MaxLlamadasA == 5
\* number of sessions run beyond max_historial, per run
MaxExtraH == 3
\* number of chunks passed to recibir_chunk beyond those of the file, per run
MaxRepetidos == 1
\* number of characters the other end types to the dispatcher, and of
\* registrations made, per run
MaxBytesD == 4
\* number of calls of registrar_comando per run
MaxRegistros == 2

\* ------------------------------------------------------- program constants
CHUNK_SIZE == 256
MAX_REINTENTOS == 3
\* max_historial of _mover_a_historial
max_historial == 100

\* ------------------------------------------------------------------- state
VARIABLES
    \* --- part P: the file on the sender's disk
    tamano,              \* archivo.stat().st_size
    seed,                \* selects the file's content
    \* --- part P: FileTransferProtocol
    logger,              \* TRUE when a logger was given, FALSE for logger=None
    pcS,                 \* position of _enviar_archivo_interno
    intento,             \* loop variable of _enviar_chunk_con_verificacion
    chunk_num,           \* sequence number of the current chunk
    bytes_enviados,      \* bytes acknowledged so far
    respuestas_control,  \* Queue of control lines
    errorS,              \* last line written by _error, or NoLine
    \* --- part P: the two directions of the serial link
    s2r,                 \* sender -> receiver byte stream (frames)
    r2s,                 \* receiver -> sender text lines
    \* --- part P: ClienteTransferenciaRobusto
    pcR,                 \* position of _recibir_archivo_robusto
    tamano_archivo,      \* size parsed from the header
    datos_completos,     \* bytes received and written to the destination
    chunk_esperado,      \* next expected sequence number
    chunk_numR,          \* sequence number parsed from the chunk header
    chunk_size,          \* announced length of the chunk being read
    \* --- part P: observation
    faults,              \* faults injected so far
    enviados,            \* what the sender wrote: <<kind, seq, len>> entries
    acks,                \* sequence numbers the receiver acknowledged
    perdidas             \* the lines the link dropped, in order

varsP == <<tamano, seed, logger, pcS, intento, chunk_num, bytes_enviados,
           respuestas_control, errorS, s2r, r2s, pcR, tamano_archivo,
           datos_completos, chunk_esperado, chunk_numR, chunk_size, faults, enviados,
           acks, perdidas>>

\* --- part M
VARIABLES
    modo,                \* "FTM": FileTransferManager, "UART": UARTHandler
    verificar_checksum,  \* config.transferencia.verificar_checksum
    tamano_total,        \* size of the file to send
    pcM,                 \* position of the sending thread
    estado,              \* InfoTransferencia.estado (FTM)
    retorno,             \* outcome of transferir_archivo (UART)
    chunk_numM,          \* loop variable chunk_num
    intentoM,            \* loop variable intento
    progreso_bytes,      \* info.progreso_bytes / stats.bytes_enviados
    progreso_chunks,     \* info.progreso_chunks / stats.chunks_enviados
    error_mensaje,       \* the exception that ended the transfer
    buffer_temp,         \* local buffer of _esperar_confirmacion
    buffer_entrada,      \* UARTHandler.buffer_entrada (reader thread)
    rx,                  \* bytes waiting in the port (conexion.in_waiting)
    tx,                  \* what was written to the port, with its writer
    lineas_peer          \* lines the other end has sent

varsM == <<modo, verificar_checksum, tamano_total, pcM, estado, retorno, chunk_numM,
           intentoM, progreso_bytes, progreso_chunks, error_mensaje, buffer_temp,
           buffer_entrada, rx, tx, lineas_peer>>

\* --- part X
VARIABLES
    pcX,                 \* position of _recibir_transferencia_automatica
    tamano_archivoX,     \* tamaño_archivo parsed from the header
    datos_completosX,    \* datos_completos of _recibir_datos_chunked
    chunk_numX,          \* chunk_num of _recibir_datos_chunked
    lineaX,              \* header line waiting in the receiver's port
    puertoX,             \* raw bytes waiting in the receiver's port
    transitoX,           \* raw bytes written by the sender, still on the line
    r2sX,                \* lines written by the receiver, unread by the sender
    enviadosX,           \* chunks the sender has written
    acksX,               \* for each ACK: bytes asked of read() and bytes read
    timeoutsX            \* reads that ended by timeout

varsX == <<pcX, tamano_archivoX, datos_completosX, chunk_numX, lineaX, puertoX,
           transitoX, r2sX, enviadosX, acksX, timeoutsX>>

\* --- part F
VARIABLES
    compresion_habilitada, \* config.transferencia.compresion_habilitada
    pcF,                 \* position of the reception
    checksum_origen,     \* info.checksum_origen of the sender
    enviadosF,           \* chunks of the file the sender has written
    corruptos,           \* chunks altered on the line
    recibidoF,           \* all bytes handed to recibir_chunk
    recibiendo,          \* FileReceiver.recibiendo
    info_archivo_actual, \* FileReceiver.info_archivo_actual
    archivo_temporal,    \* TRUE when FileReceiver.archivo_temporal is set
    bytes_recibidos,     \* FileReceiver.bytes_recibidos
    chunks_recibidos,    \* FileReceiver.chunks_recibidos
    fs_temp,             \* the file temp_<nombre> of the destination directory
    fs_final,            \* the file <nombre> of the destination directory
    respuestasF,         \* 'respuesta' of every call, in order
    callback_progreso,   \* TRUE when FileReceiver.callback_progreso is set
    espacio_libre        \* shutil.disk_usage(directorio_destino).free

varsF == <<compresion_habilitada, pcF, checksum_origen, enviadosF, corruptos, recibidoF,
           recibiendo, info_archivo_actual, archivo_temporal, bytes_recibidos,
           chunks_recibidos, fs_temp, fs_final, respuestasF, callback_progreso,
           espacio_libre>>

\* --- part G
VARIABLES
    ejecutando,          \* FileTransferManager.ejecutando
    transferencias_activas, \* ids of FileTransferManager.transferencias_activas
    cola_transferencias, \* ids of the tasks in FileTransferManager.cola_transferencias
    historial_transferencias, \* ids of FileTransferManager.historial_transferencias
    creadas,             \* number of InfoTransferencia objects created so far
    estado_de,           \* id -> info.estado ("" before the object exists)
    chunks_de,           \* id -> number of chunks of the file of the transfer
    pcG,                 \* position of the processor thread
    actualG,             \* id of the transfer the processor thread executes, 0 if none
    chunk_numG,          \* chunk_num of _transferir_archivo
    intentoG,            \* intento of _transferir_archivo
    escritosG,           \* what the processor thread wrote to the port, in order
    respuestasG,         \* replies of cmd_descargar_archivo, in order
    canceladas,          \* ids for which cancelar_transferencia returned True
    transferencias_exitosas, \* FileTransferManager.transferencias_exitosas
    transferencias_fallidas, \* FileTransferManager.transferencias_fallidas
    lanzanG              \* the callbacks set by establecer_callbacks that raise

varsG == <<ejecutando, transferencias_activas, cola_transferencias,
           historial_transferencias, creadas, estado_de, chunks_de, pcG, actualG,
           chunk_numG, intentoG, escritosG, respuestasG, canceladas,
           transferencias_exitosas, transferencias_fallidas, lanzanG>>

\* --- part K
VARIABLES
    pcK,                 \* position of recibir_archivo
    sizeK,               \* size, parsed from the header
    recibidoK,           \* len(recibido)
    lineasK,             \* lines waiting in the client's port
    bytesK,              \* number of raw bytes waiting in the client's port
    vaciasK,             \* readline calls that returned nothing, modulo MaxVacias + 1
    escritosK,           \* what the client wrote to the port, in order
    servidorK,           \* number of writes of the server so far
    guardadoK            \* length of the file recibido_<timestamp>.jpg, -1 if not written

varsK == <<pcK, sizeK, recibidoK, lineasK, bytesK, vaciasK, escritosK, servidorK,
           guardadoK>>

\* --- part D
VARIABLES
    tabla_comandos,      \* UARTHandler.callbacks_comandos: <<name, handler>> in insertion order
    comandos_procesados, \* UARTHandler.comandos_procesados
    buffer_entradaD,     \* UARTHandler.buffer_entrada
    conexion_abierta,    \* conexion.is_open
    rxD,                 \* characters waiting in the port
    recibidoD,           \* all characters passed to _procesar_datos_recibidos so far
    salidaD,             \* messages passed to enviar_mensaje, in order
    despachos,           \* one record per call of _procesar_comando, in order
    alfabetoD,           \* the characters the other end types
    registrosD           \* the calls of registrar_comando so far, in order

varsD == <<tabla_comandos, comandos_procesados, buffer_entradaD, conexion_abierta, rxD,
           recibidoD, salidaD, despachos, alfabetoD, registrosD>>

\* --- part L
VARIABLES
    lock,                \* UARTHandler.lock: the thread that holds it, or "libre"
    pcL,                 \* where each writing thread is
    claseL,              \* what each thread is writing: a text line or a raw chunk
    parteL,              \* how many parts of its frame each thread has put on the wire
    tramasL,             \* how many frames each thread has started
    wire                 \* the parts written to conexion, in the order they reach the port

varsL == <<lock, pcL, claseL, parteL, tramasL, wire>>

\* --- part U
VARIABLES
    estadoU,              \* UARTHandler.estado
    errores_consecutivos, \* UARTHandler.errores_consecutivos
    is_open,              \* UARTHandler.conexion.is_open
    ejecutandoU,          \* UARTHandler.ejecutando
    puerto_disponible,    \* serial.Serial(...) would open the port now
    pcU,                  \* where the reader thread is
    eventosU              \* failures and port changes so far

varsU == <<estadoU, errores_consecutivos, is_open, ejecutandoU, puerto_disponible, pcU,
           eventosU>>

vars == <<varsP, varsM, varsX, varsF, varsG, varsK, varsD, varsL, varsU>>

\* a step of part P leaves the other parts alone
OtrasPartesP == UNCHANGED <<varsM, varsX, varsF, varsG, varsK, varsD, varsL, varsU>>

\* ----------------------------------------------------------------- helpers
Min(a, b) == IF a < b THEN a ELSE b

\* number of decimal digits of str(n)
Digits(n) == IF n < 10 THEN 1 ELSE IF n < 100 THEN 2 ELSE IF n < 1000 THEN 3 ELSE 4

\* value standing for a byte of a text line that was read as payload
TEXT == -1

\* the content of the file: tamano bytes, each 0..255
FileBytes(n, sd) == [i \in 1..n |-> (sd * 101 + i * 7 + (i \div CHUNK_SIZE)) % 256]

Archivo == FileBytes(tamano, seed)

\* mutant: the read stops one byte short of the chunk size
LeerChunk_short(data, off) == SubSeq(data, off + 1, Min(Len(data), off + CHUNK_SIZE - 1))

\* f.read(CHUNK_SIZE) at offset off
LeerChunk(data, off) == SubSeq(data, off + 1, Min(Len(data), off + CHUNK_SIZE))

\* frames of the sender -> receiver stream
Line(t, msg, a, b) == [k |-> "L", t |-> t, msg |-> msg, a |-> a, b |-> b, d |-> <<>>]
Raw(d)             == [k |-> "B", t |-> "", msg |-> "", a |-> 0, b |-> 0, d |-> d]
Frag(n)            == [k |-> "F", t |-> "", msg |-> "", a |-> n, b |-> 0, d |-> <<>>]
NoLine             == Line("", "", 0, 0)

\* len(text) of the detail of an ERROR|TRANSFER|<detail> line
DetailLen(msg, a) ==
    CASE msg = "READY no recibido en tiempo" -> 27
      [] msg = "Error enviando chunk"        -> 21 + Digits(a)
      [] msg = "DONE no recibido"            -> 16
      [] msg = "Excepcion durante transferencia: no attribute 'warning'" -> 78
      [] msg = "Excepcion durante transferencia: no attribute 'error'"   -> 76
      [] OTHER                               -> 0

\* number of bytes a frame occupies on the wire (lines end in \r\n)
FrameLen(f) ==
    CASE f.k = "B" -> Len(f.d)
      [] f.k = "F" -> f.a
      [] f.t = "TRANSFER_START" -> 15 + 15 + 1 + Digits(f.b) + 2
      [] f.t = "CHUNK"          -> 6 + Digits(f.a) + 1 + Digits(f.b) + 2
      [] f.t = "TRANSFER_OK"    -> 11 + 2
      [] f.t = "ERROR"          -> 15 + DetailLen(f.msg, f.a) + 2
      [] OTHER                  -> 2

RECURSIVE Avail(_)
Avail(s) == IF s = <<>> THEN 0 ELSE FrameLen(Head(s)) + Avail(Tail(s))

\* the bytes a binary read of n bytes takes from the stream, and what is left
RECURSIVE TakeBytes(_, _)
TakeBytes(s, n) ==
    IF n = 0 \/ s = <<>> THEN [got |-> <<>>, rest |-> s]
    ELSE LET f == Head(s)
             l == FrameLen(f)
             bytes(m) == IF f.k = "B" THEN SubSeq(f.d, 1, m) ELSE [i \in 1..m |-> TEXT]
         IN  IF l <= n
             THEN LET r == TakeBytes(Tail(s), n - l)
                  IN  [got |-> bytes(l) \o r.got, rest |-> r.rest]
             ELSE [got  |-> bytes(n),
                   rest |-> <<(IF f.k = "B" THEN Raw(SubSeq(f.d, n + 1, l))
                                            ELSE Frag(l - n))>> \o Tail(s)]

\* ------------------------------------------------- part P: sender (protocol)
SenderWaits == {"esp_ready", "esp_chunk_ready", "esp_ack", "esp_done"}
SenderEnd   == {"ok", "fallo"}

\* what the sender wrote, without the payload: a raw frame is logged with the
\* sequence number it belongs to and its length
Logged(f, num) == IF f.k = "B" THEN [Raw(<<>>) EXCEPT !.a = num, !.b = Len(f.d)] ELSE f

\* uart.enviar_mensaje / uart.conexion.write: frames appended to the stream
Emit(frames, num) ==
    /\ s2r' = s2r \o frames
    /\ enviados' = enviados \o [i \in 1..Len(frames) |-> Logged(frames[i], num)]

\* _error(msg): the line ERROR|TRANSFER|<msg>
ErrorLine(msg, a) == Line("ERROR", msg, a, 0)

\* procesar_mensaje_control: only transfer messages enter the queue
MensajesTransferencia == {"READY", "CHUNK_READY", "ACK", "DONE", "NACK", "ERROR"}

ProcesarMensajeControl(q, mensaje) ==
    IF mensaje \in MensajesTransferencia THEN Append(q, mensaje) ELSE q

\* _esperar_respuesta_control takes one entry of the queue: TRUE when it is the
\* expected one, otherwise the entry is dropped and the wait goes on
EsRespuesta(respuesta, esperado) == respuesta = esperado

\* CHUNK|<chunk_num>|<len(chunk)>
ChunkHeader(num, chunk) == Line("CHUNK", "", num, Len(chunk))

\* the chunk loop of _enviar_archivo_interno after `off` bytes were sent:
\* the next chunk's header goes out, or the sender waits for DONE
SiguienteChunk(off, num) ==
    LET chunk == LeerChunk(Archivo, off)
    IN  IF chunk = <<>>
        THEN /\ pcS' = "esp_done"
             /\ UNCHANGED <<s2r, enviados, intento>>
        ELSE /\ pcS' = "esp_chunk_ready"
             /\ intento' = 0
             /\ Emit(<<ChunkHeader(num, chunk)>>, num)

\* a failed step: _error writes one ERROR line and the function returns False
Fallar(msg, a) ==
    /\ pcS' = "fallo"
    /\ errorS' = ErrorLine(msg, a)
    /\ Emit(<<ErrorLine(msg, a)>>, chunk_num)

UnchangedReceiver == UNCHANGED <<pcR, tamano_archivo, datos_completos, chunk_esperado,
                                 chunk_numR, chunk_size, acks, r2s>>
UnchangedFile == UNCHANGED <<tamano, seed, logger, perdidas>>

\* self.logger.warning / self.logger.error without a logger raise AttributeError;
\* inside _enviar_chunk_con_verificacion the handler's own self.logger.error
\* raises again, so that every such exception reaches the handler of
\* _enviar_archivo_interno: _error("Excepción durante transferencia: ...")
Excepcion(attr) ==
    Fallar(IF attr = "warning" /\ pcS \in {"esp_ready", "esp_done"}
           THEN "Excepcion durante transferencia: no attribute 'warning'"
           ELSE "Excepcion durante transferencia: no attribute 'error'", 0)

\* an entry of the queue that is not the expected one: logged and dropped
RespuestaInesperada ==
    IF logger
    THEN UNCHANGED <<pcS, s2r, enviados, errorS>>
    ELSE Excepcion("warning")

\* steps 1 and 2: empty the queue, send the header
S_EnviarHeader ==
    /\ pcS = "inicio"
    /\ respuestas_control' = <<>>
    /\ pcS' = "esp_ready"
    /\ Emit(<<Line("TRANSFER_START", "", 0, tamano)>>, 0)
    /\ UNCHANGED <<intento, chunk_num, bytes_enviados, errorS, faults>>
    /\ UnchangedReceiver /\ UnchangedFile /\ OtrasPartesP

\* step 3: wait for READY
S_EsperarReady ==
    /\ pcS = "esp_ready"
    /\ respuestas_control # <<>>
    /\ respuestas_control' = Tail(respuestas_control)
    /\ IF EsRespuesta(Head(respuestas_control), "READY")
       THEN SiguienteChunk(0, 0) /\ UNCHANGED errorS
       ELSE RespuestaInesperada /\ UNCHANGED intento
    /\ UNCHANGED <<chunk_num, bytes_enviados, faults>>
    /\ UnchangedReceiver /\ UnchangedFile /\ OtrasPartesP

\* _enviar_chunk_con_verificacion: wait for CHUNK_READY, then write the payload
S_EsperarChunkReady ==
    /\ pcS = "esp_chunk_ready"
    /\ respuestas_control # <<>>
    /\ respuestas_control' = Tail(respuestas_control)
    /\ IF EsRespuesta(Head(respuestas_control), "CHUNK_READY")
       THEN /\ pcS' = "esp_ack"
            /\ Emit(<<Raw(LeerChunk(Archivo, bytes_enviados))>>, chunk_num)
            /\ UNCHANGED errorS
       ELSE RespuestaInesperada
    /\ UNCHANGED <<intento, chunk_num, bytes_enviados, faults>>
    /\ UnchangedReceiver /\ UnchangedFile /\ OtrasPartesP

\* _enviar_chunk_con_verificacion: wait for ACK; on ACK the loop of
\* _enviar_archivo_interno advances bytes_enviados and chunk_num
S_EsperarAck ==
    /\ pcS = "esp_ack"
    /\ respuestas_control # <<>>
    /\ respuestas_control' = Tail(respuestas_control)
    /\ IF EsRespuesta(Head(respuestas_control), "ACK")
       THEN LET n == Len(LeerChunk(Archivo, bytes_enviados))
            IN  /\ bytes_enviados' = bytes_enviados + n
                /\ chunk_num' = chunk_num + 1
                /\ SiguienteChunk(bytes_enviados + n, chunk_num + 1)
                /\ UNCHANGED errorS
       ELSE /\ RespuestaInesperada
            /\ UNCHANGED <<intento, chunk_num, bytes_enviados>>
    /\ UNCHANGED faults
    /\ UnchangedReceiver /\ UnchangedFile /\ OtrasPartesP

\* steps 5 and 6: wait for DONE, then confirm with TRANSFER_OK
S_EsperarDone ==
    /\ pcS = "esp_done"
    /\ respuestas_control # <<>>
    /\ respuestas_control' = Tail(respuestas_control)
    /\ IF EsRespuesta(Head(respuestas_control), "DONE")
       THEN /\ pcS' = "ok"
            /\ Emit(<<Line("TRANSFER_OK", "", 0, 0)>>, chunk_num)
            /\ UNCHANGED errorS
       ELSE RespuestaInesperada
    /\ UNCHANGED <<intento, chunk_num, bytes_enviados, faults>>
    /\ UnchangedReceiver /\ UnchangedFile /\ OtrasPartesP

\* ---------------------------------------------- part P: receiver (robusto)
ReceiverLineWaits == {"esp_header", "esp_chunk", "esp_ok"}
ReceiverEnd       == {"ok", "fallo"}

\* the receiver cannot go on without more bytes from the sender
ReceiverBlocked ==
    \/ pcR \in ReceiverEnd
    \/ pcR \in ReceiverLineWaits /\ s2r = <<>>
    \/ pcR = "leer_bin" /\ Avail(s2r) < chunk_size

\* the sender cannot go on without more lines from the receiver
SenderBlocked ==
    \/ pcS \in SenderEnd
    \/ pcS \in SenderWaits /\ respuestas_control = <<>> /\ r2s = <<>>

\* a wait that expires although its peer is still about to answer is a fault
TimeoutFault(peerBlocked) ==
    IF peerBlocked THEN UNCHANGED faults
    ELSE /\ faults < MaxFaults
         /\ faults' = faults + 1

\* _esperar_respuesta_control runs into its timeout
S_Timeout ==
    /\ pcS \in SenderWaits
    /\ respuestas_control = <<>>
    /\ TimeoutFault(r2s = <<>> /\ ReceiverBlocked)
    /\ IF ~logger
       THEN /\ Excepcion("error")
            /\ UNCHANGED intento
       ELSE CASE pcS = "esp_ready" ->
                   /\ Fallar("READY no recibido en tiempo", 0)
                   /\ UNCHANGED intento
              [] pcS = "esp_chunk_ready" ->
                   IF intento < MAX_REINTENTOS - 1
                   THEN /\ intento' = intento + 1
                        /\ Emit(<<ChunkHeader(chunk_num, LeerChunk(Archivo, bytes_enviados))>>,
                                chunk_num)
                        /\ UNCHANGED <<pcS, errorS>>
                   ELSE /\ Fallar("Error enviando chunk", chunk_num)
                        /\ UNCHANGED intento
              [] pcS = "esp_ack" ->
                   IF intento + 1 < MAX_REINTENTOS
                   THEN /\ intento' = intento + 1
                        /\ pcS' = "esp_chunk_ready"
                        /\ Emit(<<ChunkHeader(chunk_num, LeerChunk(Archivo, bytes_enviados))>>,
                                chunk_num)
                        /\ UNCHANGED errorS
                   ELSE /\ Fallar("Error enviando chunk", chunk_num)
                        /\ UNCHANGED intento
              [] pcS = "esp_done" ->
                   /\ Fallar("DONE no recibido", 0)
                   /\ UNCHANGED intento
    /\ UNCHANGED <<respuestas_control, chunk_num, bytes_enviados>>
    /\ UnchangedReceiver /\ UnchangedFile /\ OtrasPartesP

UnchangedSender == UNCHANGED <<pcS, intento, chunk_num, bytes_enviados,
                               respuestas_control, errorS, enviados>>

\* _enviar_comando(c): the line c on the wire to the sender
Responder(lineas) == r2s' = r2s \o lineas

\* the head of `while len(datos_completos) < tamaño_archivo`, and step 6 (DONE)
\* when the loop ends; `lineas` are the lines the step has written before
BucleChunks(datos, total, lineas) ==
    IF Len(datos) < total
    THEN /\ pcR' = "esp_chunk"
         /\ Responder(lineas)
    ELSE /\ pcR' = "esp_ok"
         /\ Responder(lineas \o <<"DONE">>)

\* step 1: ask for the transfer
R_Solicitar ==
    /\ pcR = "inicio"
    /\ pcR' = "esp_header"
    /\ Responder(<<"transfer">>)
    /\ UNCHANGED <<tamano_archivo, datos_completos, chunk_esperado, chunk_numR,
                   chunk_size, acks, s2r, faults>>
    /\ UnchangedSender /\ UnchangedFile /\ OtrasPartesP

\* _leer_respuesta: readline takes the head of the stream; anything but a
\* whole text line decodes to a line that matches no expected prefix
EsLinea(f, t) == f.k = "L" /\ f.t = t

\* steps 2 to 4: read and parse the header, answer READY
R_LeerHeader ==
    /\ pcR = "esp_header"
    /\ s2r # <<>>
    /\ s2r' = Tail(s2r)
    /\ IF EsLinea(Head(s2r), "TRANSFER_START")
       THEN /\ tamano_archivo' = Head(s2r).b
            /\ BucleChunks(datos_completos, Head(s2r).b, <<"READY">>)
       ELSE /\ pcR' = "fallo"
            /\ UNCHANGED <<tamano_archivo, r2s>>
    /\ UNCHANGED <<datos_completos, chunk_esperado, chunk_numR, chunk_size, acks,
                   faults>>
    /\ UnchangedSender /\ UnchangedFile /\ OtrasPartesP

\* mutant: only a chunk from the future is out of sequence, a repeated one is taken
FueraDeSecuencia_gt(num, esperado) == num > esperado

\* `if chunk_num != chunk_esperado`
FueraDeSecuencia(num, esperado) == num # esperado

\* step 5: read a chunk header, check the sequence number
R_LeerChunkHeader ==
    /\ pcR = "esp_chunk"
    /\ s2r # <<>>
    /\ s2r' = Tail(s2r)
    /\ IF ~EsLinea(Head(s2r), "CHUNK")
       THEN /\ pcR' = "fallo"
            /\ UNCHANGED <<r2s, chunk_numR, chunk_size>>
       ELSE /\ chunk_numR' = Head(s2r).a
            /\ chunk_size' = Head(s2r).b
            /\ IF FueraDeSecuencia(Head(s2r).a, chunk_esperado)
               THEN /\ Responder(<<"NACK">>)
                    /\ UNCHANGED pcR
               ELSE /\ Responder(<<"CHUNK_READY">>)
                    /\ pcR' = "leer_bin"
    /\ UNCHANGED <<tamano_archivo, datos_completos, chunk_esperado, acks, faults>>
    /\ UnchangedSender /\ UnchangedFile /\ OtrasPartesP

\* _leer_datos_binarios(tamaño): the bytes when all of them arrived, else None
LeerDatosBinarios(s, n) ==
    LET r == TakeBytes(s, n)
    IN  [datos |-> IF Len(r.got) = n THEN r.got ELSE <<>>,
         ok    |-> Len(r.got) = n,
         rest  |-> r.rest]

\* `if not chunk_data or len(chunk_data) != chunk_size` is false: the chunk is kept
ChunkAceptado(r, n) == r.ok /\ r.datos # <<>> /\ Len(r.datos) = n

\* step 5: the payload: written and acknowledged, or rejected with NACK
R_LeerBinario ==
    /\ pcR = "leer_bin"
    /\ LET r == LeerDatosBinarios(s2r, chunk_size)
       IN  /\ \/ /\ Avail(s2r) >= chunk_size
                 /\ UNCHANGED faults
              \/ /\ Avail(s2r) < chunk_size
                 /\ TimeoutFault(SenderBlocked)
           /\ s2r' = r.rest
           /\ IF ChunkAceptado(r, chunk_size)
              THEN /\ datos_completos' = datos_completos \o r.datos
                   /\ chunk_esperado' = chunk_esperado + 1
                   /\ acks' = Append(acks, chunk_numR)
                   /\ BucleChunks(datos_completos \o r.datos, tamano_archivo, <<"ACK">>)
              ELSE /\ Responder(<<"NACK">>)
                   /\ pcR' = "esp_chunk"
                   /\ UNCHANGED <<datos_completos, chunk_esperado, acks>>
    /\ UNCHANGED <<tamano_archivo, chunk_numR, chunk_size>>
    /\ UnchangedSender /\ UnchangedFile /\ OtrasPartesP

\* steps 7 and 8: the final confirmation (whatever it is) and the size check
R_LeerConfirmacion ==
    /\ pcR = "esp_ok"
    /\ \/ /\ s2r # <<>>
          /\ s2r' = Tail(s2r)
          /\ UNCHANGED faults
       \/ /\ s2r = <<>>
          /\ TimeoutFault(SenderBlocked)
          /\ UNCHANGED s2r
    /\ pcR' = IF Len(datos_completos) = tamano_archivo THEN "ok" ELSE "fallo"
    /\ UNCHANGED <<tamano_archivo, datos_completos, chunk_esperado, chunk_numR,
                   chunk_size, acks, r2s>>
    /\ UnchangedSender /\ UnchangedFile /\ OtrasPartesP

\* _leer_respuesta returns None where a header is awaited: the transfer fails
R_TimeoutLinea ==
    /\ pcR \in {"esp_header", "esp_chunk"}
    /\ s2r = <<>>
    /\ TimeoutFault(SenderBlocked)
    /\ pcR' = "fallo"
    /\ UNCHANGED <<tamano_archivo, datos_completos, chunk_esperado, chunk_numR,
                   chunk_size, acks, r2s, s2r>>
    /\ UnchangedSender /\ UnchangedFile /\ OtrasPartesP

\* ------------------------------------------------------- part P: the link
\* the reader hands a received line to procesar_mensaje_control
DeliverControl ==
    /\ r2s # <<>>
    /\ r2s' = Tail(r2s)
    /\ respuestas_control' = ProcesarMensajeControl(respuestas_control, Head(r2s))
    /\ UNCHANGED <<pcS, intento, chunk_num, bytes_enviados, errorS, enviados, s2r,
                   pcR, tamano_archivo, datos_completos, chunk_esperado, chunk_numR,
                   chunk_size, acks, faults>>
    /\ UnchangedFile /\ OtrasPartesP

\* the link drops a line on its way to the sender
PerderLinea ==
    /\ r2s # <<>>
    /\ faults < MaxFaults
    /\ faults' = faults + 1
    /\ r2s' = Tail(r2s)
    /\ perdidas' = Append(perdidas, Head(r2s))
    /\ UNCHANGED <<pcS, intento, chunk_num, bytes_enviados, errorS, enviados, s2r,
                   respuestas_control, pcR, tamano_archivo, datos_completos,
                   chunk_esperado, chunk_numR, chunk_size, acks>>
    /\ UNCHANGED <<tamano, seed, logger>> /\ OtrasPartesP

\* ------------------------------------------------ part P: specification
FileSizes == {0, 1, CHUNK_SIZE - 1, CHUNK_SIZE, CHUNK_SIZE + 1, 2 * CHUNK_SIZE, 600}

\* the state of part P before a session starts
ReposoP ==
    /\ pcS = "inicio"
    /\ intento = 0
    /\ chunk_num = 0
    /\ bytes_enviados = 0
    /\ respuestas_control = <<>>
    /\ errorS = NoLine
    /\ s2r = <<>>
    /\ r2s = <<>>
    /\ pcR = "inicio"
    /\ tamano_archivo = 0
    /\ datos_completos = <<>>
    /\ chunk_esperado = 0
    /\ chunk_numR = 0
    /\ chunk_size = 0
    /\ faults = 0
    /\ enviados = <<>>
    /\ acks = <<>>
    /\ perdidas = <<>>

\* the state of part M before a transfer is scheduled
ReposoM ==
    /\ pcM = "pendiente"
    /\ estado = "PENDIENTE"
    /\ retorno = ""
    /\ chunk_numM = 0
    /\ intentoM = 0
    /\ progreso_bytes = 0
    /\ progreso_chunks = 0
    /\ error_mensaje = [t |-> "", a |-> 0]
    /\ buffer_temp = <<>>
    /\ buffer_entrada = <<>>
    /\ rx = <<>>
    /\ tx = <<>>
    /\ lineas_peer = 0

\* the state of part X before the header arrives
ReposoX ==
    /\ pcX = "esp_header"
    /\ tamano_archivoX = 0
    /\ datos_completosX = <<>>
    /\ chunk_numX = 0
    /\ lineaX = <<>>
    /\ puertoX = <<>>
    /\ transitoX = <<>>
    /\ r2sX = <<>>
    /\ enviadosX = 0
    /\ acksX = <<>>
    /\ timeoutsX = 0

\* a file of the destination directory: absent, or present with its bytes
Ausente == [existe |-> FALSE, datos |-> <<>>]
Fichero(d) == [existe |-> TRUE, datos |-> d]

\* info_archivo_actual = None
SinInfo == [tamano |-> -1, checksum |-> <<>>, comprimido |-> FALSE, tamano_comprimido |-> 0]

\* the state of part F before a header arrives
ReposoF ==
    /\ pcF = "esp_header"
    /\ checksum_origen = <<>>
    /\ enviadosF = 0
    /\ corruptos = 0
    /\ recibidoF = <<>>
    /\ recibiendo = FALSE
    /\ info_archivo_actual = SinInfo
    /\ archivo_temporal = FALSE
    /\ bytes_recibidos = 0
    /\ chunks_recibidos = 0
    /\ fs_temp = Ausente
    /\ fs_final = Ausente
    /\ respuestasF = <<>>

IdsG == 1..MaxSesiones

\* part G at rest: the manager started, nothing requested
ReposoG ==
    /\ ejecutando = TRUE
    /\ transferencias_activas = {}
    /\ cola_transferencias = <<>>
    /\ historial_transferencias = <<>>
    /\ creadas = 0
    /\ estado_de = [id \in IdsG |-> ""]
    /\ chunks_de = [id \in IdsG |-> 0]
    /\ pcG = "ocioso"
    /\ actualG = 0
    /\ chunk_numG = 0
    /\ intentoG = 0
    /\ escritosG = <<>>
    /\ respuestasG = <<>>
    /\ canceladas = {}
    /\ transferencias_exitosas = 0
    /\ transferencias_fallidas = 0

\* part K at rest: recibir_archivo not called
ReposoK ==
    /\ pcK = "inicio"
    /\ sizeK = 0
    /\ recibidoK = 0
    /\ lineasK = <<>>
    /\ bytesK = 0
    /\ vaciasK = 0
    /\ escritosK = <<>>
    /\ servidorK = 0
    /\ guardadoK = -1

\* part D at rest: connected, nothing received, nothing registered since
ReposoD ==
    /\ comandos_procesados = 0
    /\ buffer_entradaD = <<>>
    /\ conexion_abierta = TRUE
    /\ rxD = <<>>
    /\ recibidoD = <<>>
    /\ salidaD = <<>>
    /\ despachos = <<>>
    /\ registrosD = <<>>

\* the threads that write to the port: the reader thread answering a command,
\* the heartbeat thread, the worker of FileTransferManager and the thread
\* that runs FileTransferProtocol.enviar_archivo
HilosL == {"lectura", "heartbeat", "gestor", "protocolo"}

\* part L at rest: nobody writes
ReposoL ==
    /\ lock = "libre"
    /\ pcL = [h \in HilosL |-> "reposo"]
    /\ claseL = [h \in HilosL |-> "linea"]
    /\ parteL = [h \in HilosL |-> 0]
    /\ tramasL = [h \in HilosL |-> 0]
    /\ wire = <<>>

\* part U at rest: the handler as iniciar leaves it
ReposoU ==
    /\ estadoU = "CONECTADO"
    /\ errores_consecutivos = 0
    /\ is_open = TRUE
    /\ ejecutandoU = TRUE
    /\ puerto_disponible = TRUE
    /\ pcU = "bucle"
    /\ eventosU = 0

InitP ==
    /\ tamano \in FileSizes
    /\ seed \in 0..MaxSeed
    /\ logger \in BOOLEAN
    /\ ReposoP
    /\ modo = "FTM" /\ verificar_checksum = TRUE /\ tamano_total = 0
    /\ ReposoM
    /\ ReposoX
    /\ compresion_habilitada = FALSE /\ callback_progreso = FALSE /\ espacio_libre = 0
    /\ ReposoF
    /\ lanzanG = {}
    /\ ReposoG
    /\ ReposoK
    /\ alfabetoD = {} /\ tabla_comandos = <<>> /\ ReposoD /\ ReposoL /\ ReposoU

NextP ==
    \/ S_EnviarHeader
    \/ S_EsperarReady
    \/ S_EsperarChunkReady
    \/ S_EsperarAck
    \/ S_EsperarDone
    \/ S_Timeout
    \/ R_Solicitar
    \/ R_LeerHeader
    \/ R_LeerChunkHeader
    \/ R_LeerBinario
    \/ R_LeerConfirmacion
    \/ R_TimeoutLinea
    \/ DeliverControl
    \/ PerderLinea

SpecP == InitP /\ [][NextP]_vars

\* ------------------------------------------------------------ claims, part P
\* ceil(n / CHUNK_SIZE)
CeilChunks(n) == (n + CHUNK_SIZE - 1) \div CHUNK_SIZE

\* the lengths of the chunks of a file of n bytes, in order
ChunkLens(n) == [i \in 1..CeilChunks(n) |-> Min(CHUNK_SIZE, n - (i - 1) * CHUNK_SIZE)]

\* the lengths of the payloads the sender wrote, in order
RECURSIVE PayloadLens(_)
PayloadLens(log) ==
    IF log = <<>> THEN <<>>
    ELSE (IF Head(log).k = "B" THEN <<Head(log).b>> ELSE <<>>) \o PayloadLens(Tail(log))

\* a step of the protocol that is not a fault of the link or of its timing
NoFaultStep == NextP /\ faults' = faults

C7_InOrder ==
    /\ acks = [i \in 1..Len(acks) |-> i - 1]
    /\ chunk_esperado = Len(acks)

C7_Mismatch ==
    (/\ pcR = "esp_chunk" /\ s2r # <<>> /\ s2r' = Tail(s2r)
     /\ EsLinea(Head(s2r), "CHUNK") /\ Head(s2r).a # chunk_esperado)
    => /\ r2s' = Append(r2s, "NACK")
       /\ pcR' = "esp_chunk"
       /\ UNCHANGED <<chunk_esperado, datos_completos, acks>>

\* C7: the acknowledged sequence numbers are 0, 1, 2, ... in order, and a
\* header with another sequence number is answered NACK, leaving the expected
\* number, the stored bytes and the announced payload untouched.
C7_Sequence == [](C7_InOrder) /\ [][C7_Mismatch]_vars

\* two chunks were acknowledged in order, and the retransmitted header of an
\* earlier chunk has just been taken from the stream and answered with NACK
C7_Witness ==
    /\ Len(acks) >= 2
    /\ pcR = "esp_chunk" /\ s2r = <<>>
    /\ chunk_numR < chunk_esperado
    /\ r2s # <<>> /\ r2s[Len(r2s)] = "NACK"
    /\ enviados[Len(enviados)] = Line("CHUNK", "", chunk_numR, CHUNK_SIZE)

\* a step in which a wait of the sender ran into its timeout: nothing was taken
\* from the queue, and the sender wrote (a retransmission or an error line)
SenderTimeoutStep ==
    /\ pcS \in SenderWaits
    /\ respuestas_control = <<>> /\ respuestas_control' = <<>>
    /\ enviados' # enviados

\* the number of CHUNK headers the sender wrote for sequence number num
RECURSIVE HeadersFor(_, _)
HeadersFor(num, log) ==
    IF log = <<>> THEN 0
    ELSE (IF Head(log).k = "L" /\ Head(log).t = "CHUNK" /\ Head(log).a = num THEN 1 ELSE 0)
         + HeadersFor(num, Tail(log))

\* C2 (FileTransferProtocol): bytes_enviados and chunk_num advance by exactly
\* one chunk, and only in the step that takes an ACK from the queue while the
\* sender waits for the ACK of the current chunk; when the wait for the ACK
\* runs into its timeout and retries are left, the sender sends the header of
\* the same chunk (same sequence number, same length) again and bytes_enviados
\* and chunk_num stay as they are.
C2_Advance ==
    (chunk_num' # chunk_num \/ bytes_enviados' # bytes_enviados)
    => /\ pcS = "esp_ack"
       /\ respuestas_control # <<>> /\ Head(respuestas_control) = "ACK"
       /\ chunk_num' = chunk_num + 1
       /\ bytes_enviados' = bytes_enviados + Len(LeerChunk(Archivo, bytes_enviados))

C2_Retransmit ==
    (SenderTimeoutStep /\ pcS = "esp_ack" /\ intento + 1 < MAX_REINTENTOS)
    => /\ enviados' = Append(enviados,
                             ChunkHeader(chunk_num, LeerChunk(Archivo, bytes_enviados)))
       /\ pcS' = "esp_chunk_ready"
       /\ UNCHANGED <<chunk_num, bytes_enviados>>

\* C2: progress advances by one chunk and only on an ACK; a timeout of the ACK
\* wait with retries left retransmits the same chunk with progress unchanged.
C2_ProgressOnAck == [][C2_Advance /\ C2_Retransmit]_vars

\* the same statement for a sender that was given a logger
C2_ProgressOnAck_logger == [][logger => (C2_Advance /\ C2_Retransmit)]_vars

\* C4 (FileTransferProtocol): the session fails on a chunk only when
\* MAX_REINTENTOS attempts of that chunk have been made (one CHUNK header
\* each), the attempt that fails with no retry left ends the session, the
\* error line names the chunk's sequence number, and a failed session has
\* sent nothing for a higher sequence number and sends nothing more.
C4_FailStep ==
    /\ (pcS \in {"esp_chunk_ready", "esp_ack"} /\ pcS' = "fallo")
       => /\ HeadersFor(chunk_num, enviados) = MAX_REINTENTOS
          /\ errorS' = ErrorLine("Error enviando chunk", chunk_num)
          /\ chunk_num' = chunk_num
    /\ (SenderTimeoutStep /\ pcS \in {"esp_chunk_ready", "esp_ack"}
        /\ HeadersFor(chunk_num, enviados) = MAX_REINTENTOS)
       => pcS' = "fallo"
    /\ pcS = "fallo" => enviados' = enviados

C4_NoHigherChunk ==
    pcS = "fallo" =>
        \A i \in 1..Len(enviados) :
            enviados[i].t = "CHUNK" \/ enviados[i].k = "B" => enviados[i].a <= chunk_num

\* C4: a chunk fails the session only after MAX_REINTENTOS attempts, with an
\* error that names the chunk, and no higher chunk is ever sent.
C4_MaxRetries == [](C4_NoHigherChunk) /\ [][C4_FailStep]_vars

\* the same statement for a sender that was given a logger
C4_MaxRetries_logger == [](C4_NoHigherChunk) /\ [][logger => C4_FailStep]_vars

\* chunk 1 of a sender with a logger failed after three attempts
C4_Witness_logger ==
    /\ logger /\ pcS = "fallo" /\ chunk_num = 1
    /\ HeadersFor(1, enviados) = MAX_REINTENTOS
    /\ errorS = ErrorLine("Error enviando chunk", 1)

\* ====================================================================
\* Part M: FileTransferManager._ejecutar_envio / UARTHandler.transferir_archivo
\* and the reader thread of UARTHandler
\* ====================================================================
\* ------------------------------------------------------------ part M: bounds
\* lines the other end sends in one run
MaxPeerLines == 4

\* -------------------------------------------------------------- part M: text
READY_MSG == <<"R", "E", "A", "D", "Y">>
ACK_MSG == <<"A", "C", "K">>
NACK_MSG == <<"N", "A", "C", "K">>
DONE_MSG == <<"D", "O", "N", "E">>
ERROR_MSG == <<"E", "R", "R", "O", "R">>
\* a command registered by the daemon, as the other end types it
CmdTest == <<"t", "e", "s", "t">>

Minusculas == <<"a", "c", "d", "e", "k", "n", "o", "r", "s", "t", "y">>
Mayusculas == <<"A", "C", "D", "E", "K", "N", "O", "R", "S", "T", "Y">>

\* the character of hasta at the place c has in desde, c itself when it has none
Traducir(c, desde, hasta) ==
    IF \E i \in 1..Len(desde) : desde[i] = c
    THEN hasta[CHOOSE i \in 1..Len(desde) : desde[i] = c]
    ELSE c

\* str.upper(), str.lower()
Upper(s) == [i \in 1..Len(s) |-> Traducir(s[i], Minusculas, Mayusculas)]
Lower(s) == [i \in 1..Len(s) |-> Traducir(s[i], Mayusculas, Minusculas)]

\* sub in s
Contains(sub, s) ==
    \E i \in 1..(Len(s) - Len(sub) + 1) : SubSeq(s, i, i + Len(sub) - 1) = sub

Blancos == {" ", "\r", "\n", "\t"}

\* str.strip()
RECURSIVE Strip(_)
Strip(s) ==
    IF s = <<>> THEN s
    ELSE IF Head(s) \in Blancos THEN Strip(Tail(s))
    ELSE IF s[Len(s)] \in Blancos THEN Strip(SubSeq(s, 1, Len(s) - 1))
    ELSE s

\* index of the first occurrence of c in s, 0 when there is none
Find(s, c) ==
    IF \E i \in 1..Len(s) : s[i] = c
    THEN CHOOSE i \in 1..Len(s) : s[i] = c /\ \A j \in 1..(i - 1) : s[j] # c
    ELSE 0

\* the complete lines of a buffer (stripped, empty ones dropped) and what is
\* left after the last line end
RECURSIVE SplitLines(_)
SplitLines(s) ==
    LET i == IF Find(s, "\n") # 0 THEN Find(s, "\n") ELSE Find(s, "\r")
    IN  IF i = 0 THEN [lineas |-> <<>>, resto |-> s]
        ELSE LET linea == Strip(SubSeq(s, 1, i - 1))
                 r == SplitLines(SubSeq(s, i + 1, Len(s)))
             IN  [lineas |-> IF linea = <<>> THEN r.lineas ELSE <<linea>> \o r.lineas,
                  resto |-> r.resto]

\* ComandoUART.from_string(linea).comando
ComandoDe(linea) ==
    LET t == Strip(linea)
        i == Find(t, ":")
    IN  Lower(IF i = 0 THEN t ELSE SubSeq(t, 1, i - 1))

\* commands with a callback (one of those the daemon registers)
callbacks_comandos == {CmdTest}

\* ------------------------------------------------------ part M: the sender
EsperaM == {"esp_ready", "esp_ack", "esp_done"}
TerminalM == {"completada", "error"}

\* an entry of the write log: writer ("T" sending thread, "D" dispatcher),
\* kind, chunk number and payload length
Escrito(w, t, a, b) == [w |-> w, t |-> t, a |-> a, b |-> b]

chunks_totales == (tamano_total + CHUNK_SIZE - 1) \div CHUNK_SIZE

\* len(f.read(chunk_size)) for chunk k
LargoChunk(k) == Min(CHUNK_SIZE, tamano_total - k * CHUNK_SIZE)

\* the text a wait in position pc looks for
Esperada(pc) ==
    CASE pc = "esp_ready" -> READY_MSG
      [] pc = "esp_ack" -> ACK_MSG
      [] pc = "esp_done" -> DONE_MSG

\* confirmacion_esperada.upper() in buffer_temp.upper()
Confirma(esperada, buf) == Contains(Upper(esperada), Upper(buf))

\* ProtocoloTransferencia.ERROR_MSG in buffer_temp.upper(); UARTHandler has no such test
HayError(buf) == modo = "FTM" /\ Contains(ERROR_MSG, Upper(buf))

UnchangedConfigM == UNCHANGED <<modo, verificar_checksum, tamano_total>>
OtrasPartesM == UNCHANGED <<varsP, varsX, varsF, varsG, varsK, varsD, varsL, varsU>>

\* the transfer ends well: estado COMPLETADA / return True
Completar(escritos) ==
    /\ pcM' = "completada"
    /\ estado' = IF modo = "FTM" THEN "COMPLETADA" ELSE estado
    /\ retorno' = IF modo = "UART" THEN "True" ELSE retorno
    /\ tx' = tx \o escritos
    /\ UNCHANGED <<error_mensaje, chunk_numM, intentoM>>

\* the transfer ends with an exception: _manejar_error_transferencia / raise
ErrorM(t, a) ==
    /\ pcM' = "error"
    /\ estado' = IF modo = "FTM" THEN "ERROR" ELSE estado
    /\ retorno' = IF modo = "UART" THEN "raise" ELSE retorno
    /\ error_mensaje' = [t |-> t, a |-> a]
    /\ UNCHANGED <<tx, chunk_numM, intentoM>>

\* after the chunk loop: VERIFY and the wait for DONE
DespuesDeChunks ==
    IF modo = "UART"
    THEN /\ pcM' = "esp_done"
         /\ UNCHANGED <<estado, retorno, error_mensaje, tx, chunk_numM, intentoM>>
    ELSE IF verificar_checksum
         THEN /\ pcM' = "esp_done"
              /\ estado' = "VERIFICANDO"
              /\ tx' = Append(tx, Escrito("T", "VERIFY", 0, 0))
              /\ UNCHANGED <<retorno, error_mensaje, chunk_numM, intentoM>>
         ELSE Completar(<<>>)

\* _enviar_chunk writes chunk k and waits for the ACK
EnviarChunkM(k, i) ==
    /\ pcM' = "esp_ack"
    /\ chunk_numM' = k
    /\ intentoM' = i
    /\ tx' = Append(tx, Escrito("T", "DATA", k, LargoChunk(k)))
    /\ estado' = IF modo = "FTM" THEN "TRANSFIRIENDO" ELSE estado
    /\ UNCHANGED <<retorno, error_mensaje>>

\* what the sending thread does when its wait returns ok
Resultado(ok) ==
    /\ buffer_temp' = <<>>
    /\ CASE pcM = "esp_ready" ->
              /\ UNCHANGED <<progreso_bytes, progreso_chunks>>
              /\ IF ~ok THEN ErrorM("TIMEOUT", 0)
                 ELSE IF chunks_totales = 0 THEN DespuesDeChunks
                 ELSE EnviarChunkM(0, 0)
         [] pcM = "esp_ack" ->
              IF ok
              THEN /\ progreso_bytes' = progreso_bytes + LargoChunk(chunk_numM)
                   /\ progreso_chunks' = progreso_chunks + 1
                   /\ IF chunk_numM + 1 < chunks_totales
                      THEN EnviarChunkM(chunk_numM + 1, 0)
                      ELSE DespuesDeChunks
              ELSE /\ UNCHANGED <<progreso_bytes, progreso_chunks>>
                   /\ IF intentoM + 1 < MAX_REINTENTOS
                      THEN EnviarChunkM(chunk_numM, intentoM + 1)
                      ELSE ErrorM("CHUNK", chunk_numM)
         [] pcM = "esp_done" ->
              /\ UNCHANGED <<progreso_bytes, progreso_chunks>>
              /\ IF ok \/ modo = "UART" THEN Completar(<<>>)
                 ELSE ErrorM("CHECKSUM", 0)

\* the header goes out and the sender waits for READY
M_Iniciar ==
    /\ pcM = "pendiente"
    /\ pcM' = "esp_ready"
    /\ estado' = IF modo = "FTM" THEN "ESPERANDO_CONFIRMACION" ELSE estado
    /\ tx' = Append(tx, Escrito("T", "FILE", 0, tamano_total))
    /\ buffer_temp' = <<>>
    /\ UNCHANGED <<retorno, chunk_numM, intentoM, progreso_bytes, progreso_chunks,
                   error_mensaje, buffer_entrada, rx, lineas_peer>>
    /\ UnchangedConfigM /\ OtrasPartesM

\* _esperar_confirmacion finds bytes waiting and reads all of them
M_Leer ==
    /\ pcM \in EsperaM
    /\ rx # <<>>
    /\ rx' = <<>>
    /\ LET buf == buffer_temp \o rx
       IN  IF Confirma(Esperada(pcM), buf) THEN Resultado(TRUE)
           ELSE IF HayError(buf) THEN Resultado(FALSE)
           ELSE /\ buffer_temp' = buf
                /\ UNCHANGED <<pcM, estado, retorno, chunk_numM, intentoM, progreso_bytes,
                               progreso_chunks, error_mensaje, tx>>
    /\ UNCHANGED <<buffer_entrada, lineas_peer>>
    /\ UnchangedConfigM /\ OtrasPartesM

\* _esperar_confirmacion runs out of time with nothing waiting in the port
M_Timeout ==
    /\ pcM \in EsperaM
    /\ rx = <<>>
    /\ Resultado(FALSE)
    /\ UNCHANGED <<buffer_entrada, rx, lineas_peer>>
    /\ UnchangedConfigM /\ OtrasPartesM

\* ------------------------------------------------- part M: the reader thread
RespuestaA(linea) ==
    IF ComandoDe(linea) \in callbacks_comandos
    THEN Escrito("D", "RESP", 0, 0)
    ELSE Escrito("D", "UNKNOWN_COMMAND", 0, 0)

\* one pass of _bucle_lectura: read what waits, dispatch every complete line
Lector ==
    /\ rx # <<>>
    /\ rx' = <<>>
    /\ LET r == SplitLines(buffer_entrada \o rx)
       IN  /\ buffer_entrada' = r.resto
           /\ tx' = tx \o [i \in 1..Len(r.lineas) |-> RespuestaA(r.lineas[i])]
    /\ UNCHANGED <<pcM, estado, retorno, chunk_numM, intentoM, progreso_bytes,
                   progreso_chunks, error_mensaje, buffer_temp, lineas_peer>>
    /\ UnchangedConfigM /\ OtrasPartesM

\* ---------------------------------------------------- part M: the other end
LineasPeer == {READY_MSG, ACK_MSG, NACK_MSG, DONE_MSG, ERROR_MSG, CmdTest}

PeerEnvia ==
    /\ lineas_peer < MaxPeerLines
    /\ lineas_peer' = lineas_peer + 1
    /\ \E l \in LineasPeer : rx' = rx \o l \o <<"\n">>
    /\ UNCHANGED <<pcM, estado, retorno, chunk_numM, intentoM, progreso_bytes,
                   progreso_chunks, error_mensaje, buffer_temp, buffer_entrada, tx>>
    /\ UnchangedConfigM /\ OtrasPartesM

\* ------------------------------------------------ part M: specification
TamanosM == {0, 1, CHUNK_SIZE + 1}

InitM ==
    /\ modo \in {"FTM", "UART"}
    /\ verificar_checksum \in BOOLEAN
    /\ tamano_total \in TamanosM
    /\ ReposoM
    /\ tamano = 0 /\ seed = 0 /\ logger = TRUE
    /\ ReposoP
    /\ ReposoX
    /\ compresion_habilitada = FALSE /\ callback_progreso = FALSE /\ espacio_libre = 0
    /\ ReposoF
    /\ lanzanG = {}
    /\ ReposoG
    /\ ReposoK
    /\ alfabetoD = {} /\ tabla_comandos = <<>> /\ ReposoD /\ ReposoL /\ ReposoU

NextM ==
    \/ M_Iniciar
    \/ M_Leer
    \/ M_Timeout
    \/ Lector
    \/ PeerEnvia

SpecM == InitM /\ [][NextM]_vars

\* ------------------------------------------------------------ claims, part M
\* what was written to the port in this step
Nuevos == SubSeq(tx', Len(tx) + 1, Len(tx'))

\* the port is emptied in this step and the dispatcher answers nothing: the
\* read is the sending thread's (a pass of the reader thread answers every line)
LecturaDelEmisor ==
    /\ rx # <<>> /\ rx' = <<>>
    /\ \A i \in 1..Len(Nuevos) : Nuevos[i].w = "T"

\* the sending thread reads the port while it waits for the ACK of a chunk and
\* the answer it has then read in this wait is the single line NACK
NackLeido ==
    /\ pcM = "esp_ack"
    /\ LecturaDelEmisor
    /\ SplitLines(buffer_temp \o rx).lineas = <<NACK_MSG>>

\* C3: when the answer to a chunk is NACK the sender does not advance its
\* progress counters and does not go on to another chunk: in that step it
\* writes nothing, or the same chunk again.
C3_NackStep ==
    NackLeido =>
        /\ UNCHANGED <<progreso_bytes, progreso_chunks, chunk_numM>>
        /\ pcM' = "esp_ack"
        /\ Nuevos \in {<<>>, <<Escrito("T", "DATA", chunk_numM, LargoChunk(chunk_numM))>>}

\* C3: in every step in which the sender reads NACK as the answer to a chunk,
\* progress is unchanged and nothing but the same chunk is written.
C3_NackNotDelivered == [][C3_NackStep]_vars

\* a line DONE is among what the wait for DONE has read when this step ends it
DoneLeido ==
    /\ pcM = "esp_done"
    /\ LecturaDelEmisor
    /\ \E i \in 1..Len(SplitLines(buffer_temp \o rx).lineas) :
           SplitLines(buffer_temp \o rx).lineas[i] = DONE_MSG

\* C5: a sender reports success (estado COMPLETADA, return value True) only in
\* a step in which its wait for DONE, entered after the last chunk was
\* acknowledged, reads DONE; a wait for DONE that ends without it ends the
\* session in error.
C5_DoneStep ==
    /\ (pcM' = "completada" /\ pcM # "completada")
       => (DoneLeido /\ progreso_chunks = chunks_totales)
    /\ (pcM = "esp_done" /\ pcM' # "esp_done" /\ ~DoneLeido) => pcM' = "error"
    /\ (estado' = "COMPLETADA" \/ retorno' = "True") => pcM' = "completada"

\* C5: success is reported only in a step that reads DONE after the last
\* chunk was acknowledged; a wait for DONE that ends without it ends in error.
C5_DoneOnly == [][C5_DoneStep]_vars

\* C5 for FileTransferProtocol: the session becomes ok only by taking DONE
\* from the queue while waiting for it after the last chunk
C5_DoneStep_FTP ==
    /\ (pcS' = "ok" /\ pcS # "ok")
       => /\ pcS = "esp_done"
          /\ respuestas_control # <<>> /\ Head(respuestas_control) = "DONE"
          /\ bytes_enviados = tamano
    /\ (pcS = "esp_done" /\ pcS' # "esp_done"
        /\ ~(respuestas_control # <<>> /\ Head(respuestas_control) = "DONE"))
       => pcS' = "fallo"

C5_DoneOnly_FTP == [][C5_DoneStep_FTP]_vars

\* C10: while a transfer is between its header and its terminal state only
\* the sending thread writes to the port.
C10_Step ==
    pcM \in EsperaM => \A i \in 1..Len(Nuevos) : Nuevos[i].w = "T"

\* C10: between the header of a transfer and its terminal state every write
\* to the port is a write of the sending thread.
C10_NoInterleaving == [][C10_Step]_vars

\* a two-chunk transfer that completed after READY, ACK, ACK, DONE
M_Completa ==
    /\ pcM = "completada" /\ tamano_total = CHUNK_SIZE + 1
    /\ progreso_bytes = tamano_total /\ progreso_chunks = 2
    /\ lineas_peer = 4
    /\ \A i \in 1..Len(tx) : tx[i].w = "T"

\* ====================================================================
\* Part X: ClienteTransferCorregido (raw chunks, ACK per read)
\* ====================================================================
\* ------------------------------------------------------------ part X: bounds
\* reads of the receiver that end by timeout in one run
MaxTimeoutsX == 2

\* ------------------------------------------------------ part X: the sender
OtrasPartesX == UNCHANGED <<varsG, varsK, varsD, varsL, varsU, varsM, varsF, pcS, intento, chunk_num, bytes_enviados,
                            respuestas_control, errorS, s2r, r2s, pcR, tamano_archivo,
                            datos_completos, chunk_esperado, chunk_numR, chunk_size,
                            faults, enviados, acks, perdidas>>

\* the sender announces the file: TRANSFER_START|timestamp|size
X_EnviarHeader ==
    /\ pcX = "esp_header" /\ lineaX = <<>> /\ enviadosX = 0 /\ r2sX = <<>>
    /\ pcS = "inicio"
    /\ lineaX' = <<Line("TRANSFER_START", "", 0, tamano)>>
    /\ UNCHANGED <<pcX, tamano_archivoX, datos_completosX, chunk_numX, puertoX, transitoX,
                   r2sX, enviadosX, acksX, timeoutsX>>
    /\ UnchangedFile /\ OtrasPartesX

\* the sender takes a confirmation (READY, then one ACK per chunk) and writes
\* the next raw chunk of the file
X_SenderChunk ==
    /\ r2sX # <<>>
    /\ Head(r2sX) \in {"READY", "ACK"}
    /\ r2sX' = Tail(r2sX)
    /\ IF enviadosX * CHUNK_SIZE < tamano
       THEN /\ transitoX' = transitoX \o LeerChunk(Archivo, enviadosX * CHUNK_SIZE)
            /\ enviadosX' = enviadosX + 1
       ELSE UNCHANGED <<transitoX, enviadosX>>
    /\ UNCHANGED <<pcX, tamano_archivoX, datos_completosX, chunk_numX, lineaX, puertoX,
                   acksX, timeoutsX>>
    /\ UnchangedFile /\ OtrasPartesX

\* sizes of the runs of bytes that reach the receiver's port together
Trozos == {100, CHUNK_SIZE}

\* bytes on the line reach the receiver's port
X_Llegan ==
    /\ transitoX # <<>>
    /\ \E n \in Trozos :
         LET m == Min(n, Len(transitoX))
         IN  /\ puertoX' = puertoX \o SubSeq(transitoX, 1, m)
             /\ transitoX' = SubSeq(transitoX, m + 1, Len(transitoX))
    /\ UNCHANGED <<pcX, tamano_archivoX, datos_completosX, chunk_numX, lineaX, r2sX,
                   enviadosX, acksX, timeoutsX>>
    /\ UnchangedFile /\ OtrasPartesX

\* ---------------------------------------------------- part X: the receiver
\* the header is read, its size parsed, READY answered
X_LeerHeader ==
    /\ pcX = "esp_header" /\ lineaX # <<>>
    /\ lineaX' = <<>>
    /\ tamano_archivoX' = Head(lineaX).b
    /\ r2sX' = Append(r2sX, "READY")
    /\ pcX' = "leyendo"
    /\ UNCHANGED <<datos_completosX, chunk_numX, puertoX, transitoX, enviadosX, acksX,
                   timeoutsX>>
    /\ UnchangedFile /\ OtrasPartesX

\* tamaño_chunk = min(restante, 256)
TamanoChunkX == Min(tamano_archivoX - Len(datos_completosX), CHUNK_SIZE)

\* conexion.read(n): n bytes when they are there, else what has arrived when
\* the port's timeout ends the read
ReadX(n, porTimeout) ==
    IF porTimeout THEN puertoX ELSE SubSeq(puertoX, 1, n)

\* the end of _recibir_transferencia_automatica for the data the loop returned
TerminarX(datos, lineas) ==
    IF datos # <<>> /\ Len(datos) = tamano_archivoX
    THEN /\ pcX' = "fin_ok"
         /\ r2sX' = r2sX \o lineas \o <<"DONE">>
    ELSE /\ pcX' = "fin_error"
         /\ r2sX' = r2sX \o lineas

\* one pass of the loop of _recibir_datos_chunked, and the end of the
\* transfer when the loop ends with it
X_Leer ==
    /\ pcX = "leyendo"
    /\ IF Len(datos_completosX) >= tamano_archivoX
       THEN /\ TerminarX(datos_completosX, <<>>)
            /\ UNCHANGED <<datos_completosX, chunk_numX, puertoX, acksX, timeoutsX>>
       ELSE \E porTimeout \in BOOLEAN :
              /\ IF porTimeout
                 THEN Len(puertoX) < TamanoChunkX /\ timeoutsX < MaxTimeoutsX
                 ELSE Len(puertoX) >= TamanoChunkX
              /\ timeoutsX' = IF porTimeout THEN timeoutsX + 1 ELSE timeoutsX
              /\ LET chunk_data == ReadX(TamanoChunkX, porTimeout)
                     datos == datos_completosX \o chunk_data
                 IN  /\ puertoX' = SubSeq(puertoX, Len(chunk_data) + 1, Len(puertoX))
                     /\ IF chunk_data = <<>>
                        THEN /\ TerminarX(datos_completosX, <<>>)
                             /\ UNCHANGED <<datos_completosX, chunk_numX, acksX>>
                        ELSE /\ datos_completosX' = datos
                             /\ chunk_numX' = chunk_numX + 1
                             /\ acksX' = Append(acksX, [pedido |-> TamanoChunkX,
                                                        leido |-> Len(chunk_data)])
                             /\ IF Len(datos) >= tamano_archivoX
                                THEN TerminarX(datos, <<"ACK">>)
                                ELSE /\ r2sX' = Append(r2sX, "ACK")
                                     /\ UNCHANGED pcX
    /\ UNCHANGED <<tamano_archivoX, lineaX, transitoX, enviadosX>>
    /\ UnchangedFile /\ OtrasPartesX

\* ------------------------------------------------ part X: specification
TamanosX == {0, 1, CHUNK_SIZE + 1, 600}

InitX ==
    /\ tamano \in TamanosX
    /\ seed \in 0..MaxSeed
    /\ logger = TRUE
    /\ ReposoP
    /\ modo = "FTM" /\ verificar_checksum = TRUE /\ tamano_total = 0
    /\ ReposoM
    /\ ReposoX
    /\ compresion_habilitada = FALSE /\ callback_progreso = FALSE /\ espacio_libre = 0
    /\ ReposoF
    /\ lanzanG = {}
    /\ ReposoG
    /\ ReposoK
    /\ alfabetoD = {} /\ tabla_comandos = <<>> /\ ReposoD /\ ReposoL /\ ReposoU

NextX ==
    \/ X_EnviarHeader
    \/ X_SenderChunk
    \/ X_Llegan
    \/ X_LeerHeader
    \/ X_Leer

SpecX == InitX /\ [][NextX]_vars

\* ------------------------------------------------------------ claims, part X
\* C6 (ClienteTransferCorregido): every ACK was sent for a read that returned
\* exactly the number of bytes asked for.
C6_AckExact == \A i \in 1..Len(acksX) : acksX[i].leido = acksX[i].pedido

\* the transfer that ends well has the bytes of the file
X_Integridad == pcX = "fin_ok" => datos_completosX = Archivo

\* a 600-byte file received in three full reads
X_Completa ==
    /\ pcX = "fin_ok" /\ tamano = 600 /\ timeoutsX = 0
    /\ acksX = <<[pedido |-> 256, leido |-> 256], [pedido |-> 256, leido |-> 256],
                 [pedido |-> 88, leido |-> 88]>>

\* C6 (ClienteTransferenciaRobusto): the step that acknowledges a chunk is the
\* binary read of that chunk; it took exactly the announced number of bytes
\* from the port and appended exactly those to the data received.
C6_AckStep_Robusto ==
    acks' # acks =>
        /\ pcR = "leer_bin"
        /\ acks' = Append(acks, chunk_numR)
        /\ Avail(s2r) - Avail(s2r') = chunk_size
        /\ datos_completos' = datos_completos \o TakeBytes(s2r, chunk_size).got
        /\ Len(datos_completos') = Len(datos_completos) + chunk_size

C6_AckExact_Robusto == [][C6_AckStep_Robusto]_vars

\* ====================================================================
\* Part F: FileReceiver, fed by FileTransferManager._ejecutar_envio
\* ====================================================================
\* ------------------------------------------------------------ part F: bounds
\* chunks altered on the line in one run
MaxCorruptos == 1

\* ------------------------------------------------- part F: pure functions
\* str(n) for n >= 0, as its decimal digits
RECURSIVE ADecimal(_)
ADecimal(n) == IF n < 10 THEN <<n>> ELSE ADecimal(n \div 10) \o <<n % 10>>

\* int(s) for a string of decimal digits
RECURSIVE DeDecimal(_)
DeDecimal(s) ==
    IF s = <<>> THEN 0 ELSE 10 * DeDecimal(SubSeq(s, 1, Len(s) - 1)) + s[Len(s)]

\* the sum of i * (d[i] + 1) for i in a..b, modulo 65521
RECURSIVE SumaPesada(_, _, _)
SumaPesada(d, a, b) ==
    IF a > b THEN 0
    ELSE IF a = b THEN (a * (d[a] + 1)) % 65521
    ELSE LET m == (a + b) \div 2
         IN  (SumaPesada(d, a, m) + SumaPesada(d, m + 1, b)) % 65521

\* the digest of d (stands for hashlib.md5): it depends on every byte, on
\* the order of the bytes and on their number
Hash(d) == (7 + Len(d) + SumaPesada(d, 1, Len(d))) % 65521

\* hexdigest(): the digest as hexadecimal digits
RECURSIVE AHex(_)
AHex(n) == IF n < 16 THEN <<n>> ELSE AHex(n \div 16) \o <<n % 16>>

\* _calcular_checksum
Checksum(d) == AHex(Hash(d))

\* struct.pack('<Q', n) is Bytes(n, 8): k bytes, least significant first
RECURSIVE Bytes(_, _)
Bytes(n, k) == IF k = 0 THEN <<>> ELSE <<n % 256>> \o Bytes(n \div 256, k - 1)

\* struct.unpack('<Q', b)[0]
RECURSIVE ParseLE(_)
ParseLE(b) == IF b = <<>> THEN 0 ELSE Head(b) + 256 * ParseLE(Tail(b))

\* length of the run of v at the start of d
RECURSIVE Corrida(_, _)
Corrida(d, v) == IF d = <<>> \/ Head(d) # v THEN 0 ELSE 1 + Corrida(Tail(d), v)

\* the compressed stream (stands for zlib): runs as <<count, byte>> pairs
RECURSIVE Deflate(_)
Deflate(d) ==
    IF d = <<>> THEN <<>>
    ELSE LET c == Min(255, Corrida(d, Head(d)))
         IN  <<c, Head(d)>> \o Deflate(SubSeq(d, c + 1, Len(d)))

RECURSIVE Inflate(_)
Inflate(z) ==
    IF Len(z) < 2 THEN <<>>
    ELSE [i \in 1..z[1] |-> z[2]] \o Inflate(SubSeq(z, 3, Len(z)))

\* the check value that ends the compressed stream
RECURSIVE SumaRango(_, _, _)
SumaRango(d, a, b) ==
    IF a > b THEN 0
    ELSE IF a = b THEN d[a] % 251
    ELSE LET m == (a + b) \div 2
         IN  (SumaRango(d, a, m) + SumaRango(d, m + 1, b)) % 251

Suma(d) == (1 + SumaRango(d, 1, Len(d))) % 251

\* CompresorArchivos.comprimir_archivo: size header, stream, check value
Comprimir(d) == Bytes(Len(d), 8) \o Deflate(d) \o <<Suma(d)>>

\* the stream decodes and its check value is right
StreamValido(body) ==
    /\ Len(body) % 2 = 1
    /\ \A i \in 1..(Len(body) \div 2) : body[2 * i - 1] >= 1
    /\ Suma(Inflate(SubSeq(body, 1, Len(body) - 1))) = body[Len(body)]

\* CompresorArchivos.descomprimir_archivo: ok is FALSE when it raises, creado
\* tells whether the destination file was opened for writing, datos is what
\* was written to it
Descomprimir(z) ==
    IF Len(z) < 8 THEN [ok |-> FALSE, creado |-> FALSE, datos |-> <<>>]
    ELSE LET n == ParseLE(SubSeq(z, 1, 8))
             body == SubSeq(z, 9, Len(z))
         IN  IF n = 0 \/ body = <<>> THEN [ok |-> TRUE, creado |-> TRUE, datos |-> <<>>]
             ELSE IF ~StreamValido(body) THEN [ok |-> FALSE, creado |-> TRUE, datos |-> <<>>]
             ELSE LET out == Inflate(SubSeq(body, 1, Len(body) - 1))
                  IN  [ok |-> TRUE, creado |-> TRUE,
                       datos |-> SubSeq(out, 1, Min(n, Len(out)))]

\* ProtocoloTransferencia.crear_header: the fields that are joined with "|"
CrearHeader(nombre, tam, checksum, comprimido, tam_comprimido) ==
    <<"FILE", nombre, ADecimal(tam), checksum>>
    \o (IF comprimido THEN <<"COMPRESSED", ADecimal(tam_comprimido)>> ELSE <<>>)

\* ProtocoloTransferencia.parsear_header of a valid header
ParsearHeader(campos) ==
    LET comp == Len(campos) >= 6 /\ campos[5] = "COMPRESSED"
    IN  [tamano |-> DeDecimal(campos[3]),
         checksum |-> campos[4],
         comprimido |-> comp,
         tamano_comprimido |-> IF comp THEN DeDecimal(campos[6]) ELSE 0]

\* ------------------------------------------------------ part F: the sender
\* length of the runs of equal bytes in the files of this part
LargoCorrida == 64

\* the file to send: tamano bytes in runs, seed selects the content
ArchivoF == [i \in 1..tamano |-> (seed * 101 + (i - 1) \div LargoCorrida) % 256]

\* _preparar_archivo_envio: the bytes that go on the line
ArchivoAEnviar == IF compresion_habilitada THEN Comprimir(ArchivoF) ELSE ArchivoF

ChunksF == (Len(ArchivoAEnviar) + CHUNK_SIZE - 1) \div CHUNK_SIZE

\* a chunk with its first byte altered on the line
Corromper(chunk) == [chunk EXCEPT ![1] = (@ + 1) % 256]

OtrasPartesF == UNCHANGED <<varsG, varsK, varsD, varsL, varsU, varsM, varsX, pcS, intento, chunk_num, bytes_enviados,
                            respuestas_control, errorS, s2r, r2s, pcR, tamano_archivo,
                            datos_completos, chunk_esperado, chunk_numR, chunk_size,
                            faults, enviados, acks, perdidas>>
UnchangedConfigF == UNCHANGED <<compresion_habilitada, verificar_checksum, tamano, seed, logger,
                                callback_progreso, espacio_libre>>

\* ---------------------------------------------------- part F: the receiver
ResponderF(r) == respuestasF' = Append(respuestasF, r)

\* _limpiar_recepcion
LimpiarRecepcion(temp) ==
    /\ recibiendo' = FALSE
    /\ info_archivo_actual' = SinInfo
    /\ bytes_recibidos' = 0
    /\ chunks_recibidos' = 0
    /\ fs_temp' = IF archivo_temporal /\ temp.existe THEN Ausente ELSE temp
    /\ archivo_temporal' = FALSE

\* the number of bytes a header announces: tamano_comprimido for a compressed
\* header, tamano otherwise
TamanoAnunciado(info) ==
    IF info.comprimido THEN info.tamano_comprimido ELSE info.tamano

\* the margin of _verificar_espacio_disponible: 100 MB
MARGEN == 100 * 1024 * 1024

\* _verificar_espacio_disponible(tamano_requerido)
verificar_espacio_disponible(libre, requerido) == libre >= requerido + MARGEN

\* info_archivo.get('tamaño_comprimido', info_archivo['tamaño']): parsear_header
\* always enters the key 'tamaño_comprimido' (0 without compression), so the
\* default of get is never used
tamano_requerido(info) == info.tamano_comprimido

\* int(s) does not raise
EsDecimal(s) == s # <<>> /\ \A i \in 1..Len(s) : s[i] \in 0..9

\* parsear_header does not raise
HeaderValido(campos) ==
    /\ Len(campos) >= 4
    /\ campos[1] = "FILE"
    /\ EsDecimal(campos[3])
    /\ (Len(campos) >= 6 /\ campos[5] = "COMPRESSED") => EsDecimal(campos[6])

UnchangedRecepcion ==
    UNCHANGED <<recibiendo, info_archivo_actual, archivo_temporal, bytes_recibidos,
                chunks_recibidos>>

\* procesar_header without the test of self.recibiendo
procesar_header_sin_guardia(campos) ==
    IF ~HeaderValido(campos)
    THEN /\ ResponderF("ERROR|excepcion")
         /\ UnchangedRecepcion
    ELSE IF ~verificar_espacio_disponible(espacio_libre,
                                          tamano_requerido(ParsearHeader(campos)))
    THEN /\ ResponderF("ERROR|Espacio insuficiente")
         /\ UnchangedRecepcion
    ELSE /\ info_archivo_actual' = ParsearHeader(campos)
         /\ archivo_temporal' = TRUE
         /\ bytes_recibidos' = 0
         /\ chunks_recibidos' = 0
         /\ recibiendo' = TRUE
         /\ ResponderF("READY")

\* FileReceiver.procesar_header(header_str)
procesar_header(campos) ==
    IF recibiendo
    THEN /\ ResponderF("ERROR|Recepcion ya en progreso")
         /\ UnchangedRecepcion
    ELSE IF ~HeaderValido(campos)
    THEN /\ ResponderF("ERROR|excepcion")
         /\ UnchangedRecepcion
    ELSE IF ~verificar_espacio_disponible(espacio_libre,
                                          tamano_requerido(ParsearHeader(campos)))
    THEN /\ ResponderF("ERROR|Espacio insuficiente")
         /\ UnchangedRecepcion
    ELSE /\ info_archivo_actual' = ParsearHeader(campos)
         /\ archivo_temporal' = TRUE
         /\ bytes_recibidos' = 0
         /\ chunks_recibidos' = 0
         /\ recibiendo' = TRUE
         /\ ResponderF("READY")

\* the progress callback is registered and computing 'porcentaje' divides by
\* zero: bytes_recibidos / info.get('tamaño_comprimido', info['tamaño'])
PorcentajeFalla == callback_progreso /\ tamano_requerido(info_archivo_actual) = 0

\* the same when get falls back on 'tamaño'
PorcentajeFalla_tamano ==
    callback_progreso /\ TamanoAnunciado(info_archivo_actual) = 0

\* FileReceiver.recibir_chunk(datos)
recibir_chunk(datos) ==
    IF ~recibiendo \/ info_archivo_actual = SinInfo
    THEN /\ ResponderF("NACK")
         /\ UnchangedRecepcion
         /\ UNCHANGED fs_temp
    ELSE IF PorcentajeFalla
    THEN \* the data are written and counted, then ZeroDivisionError:
         \* _limpiar_recepcion and NACK
         /\ LimpiarRecepcion(Fichero(fs_temp.datos \o datos))
         /\ ResponderF("NACK")
    ELSE /\ fs_temp' = Fichero(fs_temp.datos \o datos)
         /\ bytes_recibidos' = bytes_recibidos + Len(datos)
         /\ chunks_recibidos' = chunks_recibidos + 1
         /\ ResponderF("ACK")
         /\ UNCHANGED <<recibiendo, info_archivo_actual, archivo_temporal>>

\* the sender computes the checksum of the file it sends and writes the
\* header; procesar_header answers it
F_Header ==
    /\ pcF = "esp_header"
    /\ LET cs == Checksum(ArchivoAEnviar)
           header == CrearHeader("foto", tamano, cs, compresion_habilitada,
                                 IF compresion_habilitada THEN Len(ArchivoAEnviar)
                                 ELSE tamano)
       IN  /\ checksum_origen' = cs
           /\ procesar_header(header)
    /\ pcF' = IF recibiendo' THEN "recibiendo" ELSE "hecho"
    /\ UNCHANGED <<enviadosF, corruptos, recibidoF, fs_temp, fs_final>>
    /\ UnchangedConfigF /\ OtrasPartesF

\* a header that arrives while a reception is in progress
F_HeaderEnProgreso ==
    /\ pcF = "recibiendo" /\ recibiendo
    /\ enviadosF = 0 /\ respuestasF[Len(respuestasF)] = "READY"
    /\ procesar_header(CrearHeader("foto", tamano, checksum_origen, compresion_habilitada,
                                   IF compresion_habilitada THEN Len(ArchivoAEnviar)
                                   ELSE tamano))
    /\ UNCHANGED <<pcF, checksum_origen, enviadosF, corruptos, recibidoF, fs_temp, fs_final>>
    /\ UnchangedConfigF /\ OtrasPartesF

\* the next chunk of the file arrives and recibir_chunk appends it
F_RecibirChunk ==
    /\ pcF = "recibiendo" /\ recibiendo
    /\ enviadosF < ChunksF
    /\ \E corrupto \in BOOLEAN :
         /\ corrupto => corruptos < MaxCorruptos
         /\ corruptos' = IF corrupto THEN corruptos + 1 ELSE corruptos
         /\ LET chunk == LeerChunk(ArchivoAEnviar, enviadosF * CHUNK_SIZE)
                datos == IF corrupto THEN Corromper(chunk) ELSE chunk
            IN  /\ recibir_chunk(datos)
                /\ recibidoF' = recibidoF \o datos
    /\ enviadosF' = enviadosF + 1
    /\ UNCHANGED <<pcF, checksum_origen, fs_final>>
    /\ UnchangedConfigF /\ OtrasPartesF

\* finalizar_recepcion, first half: the received file is decompressed or
\* renamed to its final name
F_FinalizarMover ==
    /\ pcF = "recibiendo" /\ recibiendo
    /\ enviadosF = ChunksF
    /\ UNCHANGED <<checksum_origen, enviadosF, corruptos, recibidoF>>
    /\ IF ~fs_temp.existe
       THEN \* open / rename of a file that was never written raises
            /\ LimpiarRecepcion(fs_temp)
            /\ ResponderF("ERROR|excepcion")
            /\ pcF' = "hecho"
            /\ UNCHANGED fs_final
       ELSE IF info_archivo_actual.comprimido
       THEN LET r == Descomprimir(fs_temp.datos)
            IN  /\ fs_final' = IF r.creado THEN Fichero(r.datos) ELSE fs_final
                /\ IF r.ok
                   THEN /\ fs_temp' = Ausente
                        /\ pcF' = "fin_verificar"
                        /\ UNCHANGED <<recibiendo, info_archivo_actual, archivo_temporal,
                                       bytes_recibidos, chunks_recibidos, respuestasF>>
                   ELSE /\ LimpiarRecepcion(fs_temp)
                        /\ ResponderF("ERROR|excepcion")
                        /\ pcF' = "hecho"
       ELSE /\ fs_final' = fs_temp
            /\ fs_temp' = Ausente
            /\ pcF' = "fin_verificar"
            /\ UNCHANGED <<recibiendo, info_archivo_actual, archivo_temporal,
                           bytes_recibidos, chunks_recibidos, respuestasF>>
    /\ UnchangedConfigF /\ OtrasPartesF

\* finalizar_recepcion, second half: the checksum of the final file
F_FinalizarVerificar ==
    /\ pcF = "fin_verificar"
    /\ pcF' = "hecho"
    /\ LimpiarRecepcion(fs_temp)
    /\ IF /\ verificar_checksum
          /\ info_archivo_actual.checksum # <<>>
          /\ Checksum(fs_final.datos) # info_archivo_actual.checksum
       THEN /\ fs_final' = Ausente
            /\ ResponderF("ERROR|Checksum invalido")
       ELSE /\ ResponderF("DONE")
            /\ UNCHANGED fs_final
    /\ UNCHANGED <<checksum_origen, enviadosF, corruptos, recibidoF>>
    /\ UnchangedConfigF /\ OtrasPartesF

\* ------------------------------------------------ part F: specification
TamanosF == {0, 1, 300}
\* free space of the destination: around the margin, and plenty
EspaciosLibres == {MARGEN - 1, MARGEN, MARGEN + 1, MARGEN + 300}

InitF ==
    /\ tamano \in TamanosF
    /\ seed \in 0..MaxSeed
    /\ logger = TRUE
    /\ ReposoP
    /\ modo = "FTM" /\ verificar_checksum \in BOOLEAN /\ tamano_total = 0
    /\ ReposoM
    /\ ReposoX
    /\ compresion_habilitada \in BOOLEAN
    /\ callback_progreso = FALSE
    /\ espacio_libre \in EspaciosLibres
    /\ ReposoF
    /\ lanzanG = {}
    /\ ReposoG
    /\ ReposoK
    /\ alfabetoD = {} /\ tabla_comandos = <<>> /\ ReposoD /\ ReposoL /\ ReposoU

NextF ==
    \/ F_Header
    \/ F_HeaderEnProgreso
    \/ F_RecibirChunk
    \/ F_FinalizarMover
    \/ F_FinalizarVerificar

SpecF == InitF /\ [][NextF]_vars

\* ------------------------------------------------------------ claims, part F
\* decompression gives back the file that was compressed
F_RoundTrip ==
    Descomprimir(Comprimir(ArchivoF)) = [ok |-> TRUE, creado |-> TRUE, datos |-> ArchivoF]

\* finalizar_recepcion has been called for a reception that took chunks
FinalizadaF == enviadosF > 0 /\ pcF \in {"fin_verificar", "hecho"}

\* the checksum of the bytes received differs from the one the sender announced
ChecksumDifiere == Checksum(recibidoF) # checksum_origen

\* C8: with verification enabled, when the checksum of the received data
\* differs from the announced one, in no state from the call of
\* finalizar_recepcion on do the received bytes exist under the final name,
\* and when the call has returned its reply is an ERROR line and the
\* temporary file is gone.
C8_ChecksumMismatch ==
    (verificar_checksum /\ FinalizadaF /\ ChecksumDifiere) =>
        /\ ~(fs_final.existe /\ fs_final.datos = recibidoF)
        /\ pcF = "hecho" =>
              /\ respuestasF[Len(respuestasF)] \in
                     {"ERROR|Checksum invalido", "ERROR|excepcion"}
              /\ ~fs_temp.existe

\* the part of C8 about the reply and the temporary file alone
C8_ReplyAndTemp ==
    (verificar_checksum /\ FinalizadaF /\ ChecksumDifiere /\ pcF = "hecho") =>
        /\ respuestasF[Len(respuestasF)] \in {"ERROR|Checksum invalido", "ERROR|excepcion"}
        /\ ~fs_temp.existe
        /\ ~(fs_final.existe /\ fs_final.datos = recibidoF)

\* C9: the checksum of the header is the checksum of the bytes the sender
\* puts on the line, and a transfer of a file with content whose bytes all
\* arrive unmodified ends with the reply DONE and the file under its final
\* name, with compression enabled as well as disabled.
C9_ChecksumOnWire ==
    /\ pcF # "esp_header" => checksum_origen = Checksum(ArchivoAEnviar)
    /\ (pcF = "hecho" /\ tamano > 0 /\ corruptos = 0 /\ respuestasF[1] = "READY") =>
          /\ recibidoF = ArchivoAEnviar
          /\ respuestasF[Len(respuestasF)] = "DONE"
          /\ fs_final = Fichero(ArchivoF)

\* the same statement for transfers without compression
C9_ChecksumOnWire_SinCompresion == ~compresion_habilitada => C9_ChecksumOnWire

\* a two-chunk file received without compression and verified
F_Completa ==
    /\ pcF = "hecho" /\ tamano = 300 /\ ~compresion_habilitada /\ verificar_checksum
    /\ respuestasF = <<"READY", "ACK", "ACK", "DONE">>
    /\ fs_final = Fichero(ArchivoF) /\ ~fs_temp.existe

\* ------------------------------------------- claims C2 and C4 on part M
\* C2 (FileTransferManager, UARTHandler): a wait for the ACK that runs out of
\* time with retries left is followed by the same chunk, progress unchanged
C2_Retransmit_M ==
    [][(pcM = "esp_ack" /\ rx = <<>> /\ tx' # tx /\ intentoM + 1 < MAX_REINTENTOS)
       => /\ Nuevos = <<Escrito("T", "DATA", chunk_numM, LargoChunk(chunk_numM))>>
          /\ UNCHANGED <<progreso_bytes, progreso_chunks, chunk_numM>>]_vars

\* C4 (FileTransferManager, UARTHandler): the transfer fails on a chunk only
\* in its last attempt, the error names the chunk, no higher chunk was sent
C4_MaxRetries_M ==
    [][(pcM = "esp_ack" /\ pcM' = "error")
       => /\ intentoM = MAX_REINTENTOS - 1
          /\ error_mensaje' = [t |-> "CHUNK", a |-> chunk_numM]
          /\ \A i \in 1..Len(tx) : tx[i].t = "DATA" => tx[i].a <= chunk_numM]_vars

\* ------------------------------------------- claims, part M: who reads a line
\* the port holds, as a complete line, the token the sending thread waits for
TokenEsperado ==
    /\ pcM \in EsperaM /\ rx # <<>>
    /\ \E i \in 1..Len(SplitLines(rx).lineas) :
           SplitLines(rx).lineas[i] = Esperada(pcM)

\* C11: a step that takes from the port the token the sending thread waits
\* for ends that wait (the sender goes on to its next position or chunk) and
\* makes the dispatcher answer nothing.
C11_Step ==
    (TokenEsperado /\ rx' = <<>>) =>
        /\ pcM' # pcM \/ progreso_chunks' # progreso_chunks
        /\ \A i \in 1..Len(Nuevos) : Nuevos[i].w = "T"

\* C11: the token a waiting sender looks for always reaches that wait: it is
\* never consumed by the command reader instead, nor answered as a command.
C11_OneConsumer == [][C11_Step]_vars

\* ============================================================ part G
\* FileTransferManager: the sessions it holds, its queue and its processor
\* thread.  What the peer answers is the outcome 'ok' of each wait.
OtrasPartesG == UNCHANGED <<varsP, varsM, varsX, varsF, varsK, varsD, varsL, varsU>>

\* EstadoTransferencia, in the order of the enumeration
Estados == <<"PENDIENTE", "INICIANDO", "ENVIANDO_HEADER", "ESPERANDO_CONFIRMACION",
             "TRANSFIRIENDO", "VERIFICANDO", "COMPLETADA", "ERROR", "CANCELADA">>

\* the states cancelar_transferencia and detener leave alone
TerminalesG == {"COMPLETADA", "ERROR", "CANCELADA"}

\* an entry of the write log of the processor thread
EscritoG(id, t, k) == [id |-> id, t |-> t, k |-> k]

\* a reply of cmd_descargar_archivo
RespuestaG(t, id) == [t |-> t, id |-> id]

\* info.estado = e for the transfer in execution
PonerEstado(e) == estado_de' = [estado_de EXCEPT ![actualG] = e]

UnchangedGestor ==
    UNCHANGED <<ejecutando, transferencias_activas, cola_transferencias,
                historial_transferencias, creadas, chunks_de, respuestasG, canceladas,
                lanzanG>>

\* programar_envio: a new InfoTransferencia, PENDIENTE, entered in
\* transferencias_activas, and its task put in the queue
programar_envio(chunks) ==
    LET id == creadas + 1
    IN  /\ creadas' = id
        /\ estado_de' = [estado_de EXCEPT ![id] = "PENDIENTE"]
        /\ chunks_de' = [chunks_de EXCEPT ![id] = chunks]
        /\ transferencias_activas' = transferencias_activas \cup {id}
        /\ cola_transferencias' = Append(cola_transferencias, id)

\* the command descargar:<archivo>: info tells whether the camera controller
\* knows the file, existe whether the file is on disk
cmd_descargar_archivo(info, existe, chunks) ==
    /\ Len(respuestasG) < MaxPedidos
    /\ IF ~info
       THEN /\ respuestasG' = Append(respuestasG, RespuestaG("ERROR|FILE_NOT_FOUND", 0))
            /\ UNCHANGED <<creadas, estado_de, chunks_de, transferencias_activas,
                           cola_transferencias>>
       ELSE IF ~existe
       THEN /\ respuestasG' = Append(respuestasG, RespuestaG("ERROR|DOWNLOAD_FAILED", 0))
            /\ UNCHANGED <<creadas, estado_de, chunks_de, transferencias_activas,
                           cola_transferencias>>
       ELSE /\ creadas < MaxSesiones
            /\ programar_envio(chunks)
            /\ respuestasG' = Append(respuestasG, RespuestaG("DOWNLOAD_STARTED", creadas + 1))
    /\ UNCHANGED <<ejecutando, historial_transferencias, pcG, actualG, chunk_numG,
                   intentoG, escritosG, canceladas, transferencias_exitosas,
                   transferencias_fallidas, lanzanG>>
    /\ OtrasPartesG

G_Descargar ==
    \E info \in BOOLEAN, existe \in BOOLEAN, chunks \in 0..MaxChunksG :
        cmd_descargar_archivo(info, existe, chunks)

\* _bucle_procesador takes a task; _procesar_tarea finds its info and
\* _ejecutar_envio starts
G_Tomar ==
    /\ pcG = "ocioso"
    /\ ejecutando
    /\ cola_transferencias # <<>>
    /\ cola_transferencias' = Tail(cola_transferencias)
    /\ IF Head(cola_transferencias) \in transferencias_activas
       THEN /\ actualG' = Head(cola_transferencias)
            /\ estado_de' = [estado_de EXCEPT ![Head(cola_transferencias)] = "INICIANDO"]
            /\ pcG' = "preparar"
       ELSE UNCHANGED <<actualG, estado_de, pcG>>
    /\ UNCHANGED <<ejecutando, transferencias_activas, historial_transferencias, creadas,
                   chunks_de, chunk_numG, intentoG, escritosG, respuestasG, canceladas, transferencias_exitosas,
                   transferencias_fallidas, lanzanG>>
    /\ OtrasPartesG

\* the statistics: ex more successes, fa more failures
Contar(ex, fa) ==
    /\ transferencias_exitosas' = transferencias_exitosas + ex
    /\ transferencias_fallidas' = transferencias_fallidas + fa

\* _manejar_error_transferencia, when the exception ends the processor thread
ManejarErrorG_fin ==
    /\ PonerEstado("ERROR")
    /\ Contar(0, 1)
    /\ pcG' = "terminado"
    /\ UNCHANGED <<chunk_numG, intentoG, escritosG>>

\* the except clause of _ejecutar_envio: _manejar_error_transferencia after
\* ex successes were counted.  When callback_error raises, the exception
\* leaves _ejecutar_envio through its finally clause.
ManejarErrorTras(ex) ==
    /\ PonerEstado("ERROR")
    /\ Contar(ex, 1)
    /\ pcG' = IF "error" \in lanzanG THEN "historial_exc" ELSE "historial"
    /\ UNCHANGED <<chunk_numG, intentoG, escritosG>>

\* _manejar_error_transferencia
ManejarErrorG == ManejarErrorTras(0)

\* info.estado = COMPLETADA, the statistics, callback_completada; an
\* exception of the callback is caught by the except clause of _ejecutar_envio
CompletarG ==
    IF "completada" \in lanzanG
    THEN ManejarErrorTras(1)
    ELSE /\ PonerEstado("COMPLETADA")
         /\ Contar(1, 0)
         /\ pcG' = "historial"
         /\ UNCHANGED <<chunk_numG, intentoG, escritosG>>

\* _enviar_header, up to the write
G_PrepararHeader ==
    /\ pcG = "preparar"
    /\ PonerEstado("ENVIANDO_HEADER")
    /\ Contar(0, 0)
    /\ pcG' = "header"
    /\ UNCHANGED <<actualG, chunk_numG, intentoG, escritosG>>
    /\ UnchangedGestor /\ OtrasPartesG

\* _enviar_header writes the header (enviado: what enviar_mensaje returns)
G_EnviarHeader ==
    /\ pcG = "header"
    /\ \E enviado \in BOOLEAN :
        IF enviado
        THEN /\ escritosG' = Append(escritosG, EscritoG(actualG, "FILE", 0))
             /\ PonerEstado("ESPERANDO_CONFIRMACION")
             /\ Contar(0, 0)
             /\ pcG' = "esp_ready"
             /\ UNCHANGED <<chunk_numG, intentoG>>
        ELSE ManejarErrorG
    /\ UNCHANGED actualG
    /\ UnchangedGestor /\ OtrasPartesG

\* the wait for READY returns; _transferir_archivo starts
G_Ready ==
    /\ pcG = "esp_ready"
    /\ \E ok \in BOOLEAN :
        IF ok
        THEN /\ PonerEstado("TRANSFIRIENDO")
             /\ Contar(0, 0)
             /\ pcG' = IF chunks_de[actualG] = 0 THEN "fin_chunks" ELSE "chunk"
             /\ chunk_numG' = 0
             /\ intentoG' = 0
             /\ UNCHANGED escritosG
        ELSE ManejarErrorG
    /\ UNCHANGED actualG
    /\ UnchangedGestor /\ OtrasPartesG

\* _enviar_chunk writes the chunk
G_EnviarChunk ==
    /\ pcG = "chunk"
    /\ escritosG' = Append(escritosG, EscritoG(actualG, "DATA", chunk_numG))
    /\ pcG' = "esp_ack"
    /\ Contar(0, 0)
    /\ UNCHANGED <<estado_de, actualG, chunk_numG, intentoG>>
    /\ UnchangedGestor /\ OtrasPartesG

\* the wait for ACK returns
G_Ack ==
    /\ pcG = "esp_ack"
    /\ \E ok \in BOOLEAN :
        IF ok
        THEN /\ pcG' = IF chunk_numG + 1 < chunks_de[actualG] THEN "chunk" ELSE "fin_chunks"
             /\ chunk_numG' = chunk_numG + 1
             /\ intentoG' = 0
             /\ Contar(0, 0)
             /\ UNCHANGED <<estado_de, escritosG>>
        ELSE IF intentoG + 1 < MAX_REINTENTOS
        THEN /\ pcG' = "chunk"
             /\ intentoG' = intentoG + 1
             /\ Contar(0, 0)
             /\ UNCHANGED <<estado_de, chunk_numG, escritosG>>
        ELSE ManejarErrorG
    /\ UNCHANGED actualG
    /\ UnchangedGestor /\ OtrasPartesG

\* after the chunk loop: _verificar_integridad if configured, else COMPLETADA
G_FinChunks ==
    /\ pcG = "fin_chunks"
    /\ IF verificar_checksum
       THEN \E enviado \in BOOLEAN :
               IF enviado
               THEN /\ PonerEstado("VERIFICANDO")
                    /\ Contar(0, 0)
                    /\ escritosG' = Append(escritosG, EscritoG(actualG, "VERIFY", 0))
                    /\ pcG' = "esp_done"
                    /\ UNCHANGED <<chunk_numG, intentoG>>
               ELSE ManejarErrorG
       ELSE CompletarG
    /\ UNCHANGED actualG
    /\ UnchangedGestor /\ OtrasPartesG

\* the wait for DONE returns
G_Done ==
    /\ pcG = "esp_done"
    /\ \E ok \in BOOLEAN :
        IF ok
        THEN CompletarG
        ELSE ManejarErrorG
    /\ UNCHANGED actualG
    /\ UnchangedGestor /\ OtrasPartesG

\* historial.append(info), then historial = historial[-max_historial:]
UltimosH(hist) ==
    IF Len(hist) > max_historial
    THEN SubSeq(hist, Len(hist) - max_historial + 1, Len(hist))
    ELSE hist

\* the same without the limit
UltimosH_todos(hist) == hist

mover_a_historial(hist, id) == UltimosH(Append(hist, id))

\* _mover_a_historial, and the processor thread is back at its loop.  With
\* the exception of callback_error pending, the except clause of
\* _procesar_tarea runs _manejar_error_transferencia once more; the second
\* exception of the callback is logged by _bucle_procesador.
G_MoverAHistorial ==
    /\ pcG \in {"historial", "historial_exc"}
    /\ transferencias_activas' = transferencias_activas \ {actualG}
    /\ historial_transferencias' = mover_a_historial(historial_transferencias, actualG)
    /\ IF pcG = "historial_exc"
       THEN PonerEstado("ERROR") /\ Contar(0, 1)
       ELSE UNCHANGED estado_de /\ Contar(0, 0)
    /\ pcG' = "ocioso"
    /\ actualG' = 0
    /\ UNCHANGED <<ejecutando, cola_transferencias, creadas, chunks_de,
                   chunk_numG, intentoG, escritosG, respuestasG, canceladas, lanzanG>>
    /\ OtrasPartesG

\* cancelar_transferencia(id) returns True
cancelar_transferencia(id) ==
    /\ id \in transferencias_activas
    /\ estado_de[id] \notin TerminalesG
    /\ estado_de' = [estado_de EXCEPT ![id] = "CANCELADA"]
    /\ canceladas' = canceladas \cup {id}
    /\ UNCHANGED <<ejecutando, transferencias_activas, cola_transferencias,
                   historial_transferencias, creadas, chunks_de, pcG, actualG, chunk_numG,
                   intentoG, escritosG, respuestasG, transferencias_exitosas,
                   transferencias_fallidas, lanzanG>>
    /\ OtrasPartesG

G_Cancelar == \E id \in IdsG : cancelar_transferencia(id)

\* detener
G_Detener ==
    /\ ejecutando
    /\ ejecutando' = FALSE
    /\ estado_de' = [id \in IdsG |->
                        IF id \in transferencias_activas /\ estado_de[id] \notin TerminalesG
                        THEN "CANCELADA" ELSE estado_de[id]]
    /\ UNCHANGED <<transferencias_activas, cola_transferencias, historial_transferencias,
                   creadas, chunks_de, pcG, actualG, chunk_numG, intentoG, escritosG,
                   respuestasG, canceladas, transferencias_exitosas,
                   transferencias_fallidas, lanzanG>>
    /\ OtrasPartesG

InitG ==
    /\ modo = "FTM" /\ verificar_checksum \in BOOLEAN /\ tamano_total = 0
    /\ ReposoM
    /\ tamano = 0 /\ seed = 0 /\ logger = TRUE
    /\ ReposoP
    /\ ReposoX
    /\ compresion_habilitada = FALSE /\ callback_progreso = FALSE /\ espacio_libre = 0
    /\ ReposoF
    /\ lanzanG = {}
    /\ ReposoG
    /\ ReposoK
    /\ alfabetoD = {} /\ tabla_comandos = <<>> /\ ReposoD /\ ReposoL /\ ReposoU

NextG ==
    \/ G_Descargar
    \/ G_Tomar
    \/ G_PrepararHeader
    \/ G_EnviarHeader
    \/ G_Ready
    \/ G_EnviarChunk
    \/ G_Ack
    \/ G_FinChunks
    \/ G_Done
    \/ G_MoverAHistorial
    \/ G_Cancelar
    \/ G_Detener

SpecG == InitG /\ [][NextG]_vars

\* ------------------------------------------------------------ claims, part G
\* the sessions that exist and are in no terminal state
NoTerminales == {id \in IdsG : estado_de[id] \notin TerminalesG \cup {""}}

\* the reply written by the descargar command of this step
UltimaRespuestaG == respuestasG'[Len(respuestasG')]

\* C12: a descargar command handled while a session is non-terminal is
\* answered with an error and creates and queues no session.
C12_Step ==
    (NoTerminales # {} /\ Len(respuestasG') > Len(respuestasG)) =>
        /\ UltimaRespuestaG.t # "DOWNLOAD_STARTED"
        /\ UNCHANGED <<creadas, transferencias_activas, cola_transferencias, estado_de>>

\* C12: every transfer requested while an earlier session is non-terminal is
\* rejected with an error reply, and no session is created or queued for it.
C12_RejectSecond == [][C12_Step]_vars

\* C13: transferencias_activas never holds two sessions that are both in a
\* non-terminal state (all sessions use the one UART handler of the daemon).
C13_OneSession == Cardinality(NoTerminales \cap transferencias_activas) <= 1

\* the header of a session is written only while every session created
\* before it is in a terminal state
C13_HeaderStep ==
    \A id \in IdsG :
        (Len(escritosG') > Len(escritosG) /\ escritosG'[Len(escritosG')] = EscritoG(id, "FILE", 0))
        => \A otra \in 1..(id - 1) : estado_de[otra] \in TerminalesG

C13_HeaderSerial == [][C13_HeaderStep]_vars

\* position of a state in the enumeration EstadoTransferencia
Orden(e) == CHOOSE i \in 1..Len(Estados) : Estados[i] = e

\* C14: a change of info.estado goes forward along PENDIENTE .. COMPLETADA or
\* from a non-terminal state to ERROR or CANCELADA; a terminal state does not
\* change; COMPLETADA is entered from VERIFICANDO only.
C14_Step ==
    \A id \in IdsG :
        (estado_de[id] # "" /\ estado_de'[id] # estado_de[id]) =>
            /\ estado_de[id] \notin TerminalesG
            /\ estado_de'[id] \notin {"ERROR", "CANCELADA"}
               => Orden(estado_de'[id]) > Orden(estado_de[id])
            /\ estado_de'[id] = "COMPLETADA" => estado_de[id] = "VERIFICANDO"

\* C14: every change of a session's state is a forward step of the state
\* machine or a step from a non-terminal state to ERROR or CANCELADA, and
\* COMPLETADA is entered only from VERIFICANDO.
C14_Forward == [][C14_Step]_vars

\* C15: for a session whose cancelar_transferencia returned True: nothing
\* more is written for it, it is never COMPLETADA, and when the processor
\* thread is done with it its state is CANCELADA.
C15_Step ==
    \A id \in canceladas :
        /\ \A i \in (Len(escritosG) + 1)..Len(escritosG') : escritosG'[i].id # id
        /\ estado_de'[id] # "COMPLETADA"
        /\ (actualG = id /\ actualG' = 0) => estado_de'[id] = "CANCELADA"

\* C15: after cancelar_transferencia returned True the session writes no
\* header, chunk or VERIFY, never becomes COMPLETADA and ends CANCELADA.
C15_CancelStops == [][C15_Step]_vars

\* -------------------------------------- claims, part M: errors and ordering
\* the sending thread reads the port while it waits and what it has then read
\* in this wait is the single line ERROR
ErrorLeido ==
    /\ pcM \in EsperaM
    /\ LecturaDelEmisor
    /\ SplitLines(buffer_temp \o rx).lineas = <<ERROR_MSG>>

\* C16: the step in which a waiting FileTransferManager session reads the
\* line ERROR ends the session in error and writes nothing: no retry of the
\* chunk, no further wait.
C16_Step == (modo = "FTM" /\ ErrorLeido) => (pcM' = "error" /\ Nuevos = <<>>)

\* C16: an ERROR line read while waiting for READY, ACK or DONE sends the
\* session to its error state at once, and nothing more is sent.
C16_ErrorEnds == [][C16_Step]_vars

\* the lines read so far in the wait that this step's read completes
LineasLeidas == SplitLines(buffer_temp \o rx).lineas

\* a chunk is among what this step writes
EscribeChunk == \E i \in 1..Len(Nuevos) : Nuevos[i].t = "DATA"

\* a line other than READY is among the lines read in the wait for READY
\* that this step ends
OtraLineaLeida ==
    /\ LecturaDelEmisor
    /\ \E i \in 1..Len(LineasLeidas) : LineasLeidas[i] # READY_MSG

\* C17: no chunk is written before the wait for READY has read READY; a
\* wait for READY that ends by timeout, or in which a line other than READY
\* was read, ends the session in error with no chunk written.
C17_Step ==
    /\ EscribeChunk => pcM # "pendiente"
    /\ (pcM = "esp_ready" /\ EscribeChunk)
       => \E i \in 1..Len(LineasLeidas) : LineasLeidas[i] = READY_MSG
    /\ (pcM = "esp_ready" /\ pcM' # "esp_ready" /\ (rx = <<>> \/ OtraLineaLeida))
       => (pcM' = "error" /\ ~EscribeChunk)

\* C17: chunks are written only after READY was read, and a wait for READY
\* that times out or reads another line ends in error without any chunk.
C17_ReadyFirst == [][C17_Step]_vars

\* the first two conjuncts and the timeout case alone
C17_Step_Timeout ==
    /\ EscribeChunk => pcM # "pendiente"
    /\ (pcM = "esp_ready" /\ EscribeChunk)
       => \E i \in 1..Len(LineasLeidas) : LineasLeidas[i] = READY_MSG
    /\ (pcM = "esp_ready" /\ pcM' # "esp_ready" /\ rx = <<>>)
       => (pcM' = "error" /\ ~EscribeChunk)

C17_ReadyFirst_Timeout == [][C17_Step_Timeout]_vars

\* C18: every chunk payload the sending thread writes comes after a CHUNK
\* header for the same chunk.
C18_HeaderBeforePayload ==
    \A i \in 1..Len(tx) :
        tx[i].t = "DATA" => \E j \in 1..(i - 1) : tx[j].t = "CHUNK" /\ tx[j].a = tx[i].a

\* C18 for FileTransferProtocol: a raw payload is written only in a step that
\* takes CHUNK_READY from the queue, and it follows the header CHUNK|seq|len
\* of the same chunk with the length of that payload
C18_Step_FTP ==
    (Len(enviados') > Len(enviados) /\ enviados'[Len(enviados')].k = "B") =>
        /\ pcS = "esp_chunk_ready"
        /\ respuestas_control # <<>> /\ Head(respuestas_control) = "CHUNK_READY"
        /\ LET n == Len(enviados')
           IN  n > 1 /\ enviados'[n - 1] = Line("CHUNK", "", enviados'[n].a, enviados'[n].b)

C18_HeaderBeforePayload_FTP == [][C18_Step_FTP]_vars

\* the ERROR lines the sending thread has written
ErroresDeSesion == {i \in 1..Len(tx) : tx[i].w = "T" /\ tx[i].t = "ERROR"}

\* C20: a session that has ended in failure has written exactly one ERROR
\* line to the port.
C20_OneErrorLine == pcM = "error" => Cardinality(ErroresDeSesion) = 1

\* C20 for FileTransferProtocol: a failed transfer has written exactly one
\* ERROR line, and it is the last thing it wrote
C20_OneErrorLine_FTP ==
    pcS = "fallo" =>
        /\ Cardinality({i \in 1..Len(enviados) : enviados[i].t = "ERROR"}) = 1
        /\ enviados[Len(enviados)] = errorS

\* ============================================================ part K
\* cliente_transfer.recibir_archivo and the server it talks to.  A line is
\* its number of '|'-separated fields (0 for a blank line) and, for a line
\* of two fields, the integer in its second field (-1 if it is not one).
OtrasPartesK == UNCHANGED <<varsP, varsM, varsX, varsF, varsG, varsD, varsL, varsU>>

LineaK(campos, size) == [campos |-> campos, size |-> size]

TamanosK == {0, 1, CHUNK_SIZE + 1}

LineasServidor ==
    {LineaK(0, 0), LineaK(1, 0), LineaK(3, 0), LineaK(2, -1)}
        \cup {LineaK(2, n) : n \in TamanosK}

BloquesServidor == {1, CHUNK_SIZE, CHUNK_SIZE + 1}

TerminalK == {"guardado", "excepcion"}

\* a readline that returned nothing is counted, modulo MaxVacias + 1
LecturaVacia == vaciasK' = (vaciasK + 1) % (MaxVacias + 1)

\* ser.write(b"fotodescarga\n")
K_Iniciar ==
    /\ pcK = "inicio"
    /\ pcK' = "esp_header"
    /\ escritosK' = Append(escritosK, "fotodescarga")
    /\ UNCHANGED <<sizeK, recibidoK, lineasK, bytesK, vaciasK, servidorK, guardadoK>>
    /\ OtrasPartesK

\* after the chunk loop: DONE is written and the final line is awaited
TrasChunks(escritos) ==
    /\ escritosK' = escritosK \o escritos \o <<"DONE">>
    /\ pcK' = "esp_final"

\* one pass of the loop 'while True' that waits for the header: readline
\* with the port timeout of 2 s, then the parse of the header
K_LeerHeader ==
    /\ pcK = "esp_header"
    /\ IF lineasK = <<>>
       THEN /\ LecturaVacia
            /\ UNCHANGED <<pcK, sizeK, lineasK, escritosK>>
       ELSE /\ lineasK' = Tail(lineasK)
            /\ UNCHANGED vaciasK
            /\ LET l == Head(lineasK)
               IN  IF l.campos < 2
                   THEN UNCHANGED <<pcK, sizeK, escritosK>>
                   ELSE IF l.campos # 2 \/ l.size < 0
                   THEN /\ pcK' = "excepcion"
                        /\ UNCHANGED <<sizeK, escritosK>>
                   ELSE /\ sizeK' = l.size
                        /\ IF l.size = 0
                           THEN TrasChunks(<<"READY">>)
                           ELSE /\ escritosK' = Append(escritosK, "READY")
                                /\ pcK' = "chunks"
    /\ UNCHANGED <<recibidoK, bytesK, servidorK, guardadoK>>
    /\ OtrasPartesK

\* one pass of the chunk loop: ser.read(256)
K_LeerChunk ==
    /\ pcK = "chunks"
    /\ IF bytesK = 0
       THEN /\ TrasChunks(<<>>)
            /\ UNCHANGED <<recibidoK, bytesK>>
       ELSE LET n == Min(CHUNK_SIZE, bytesK)
            IN  /\ bytesK' = bytesK - n
                /\ recibidoK' = recibidoK + n
                /\ IF recibidoK + n < sizeK
                   THEN /\ escritosK' = Append(escritosK, "ACK")
                        /\ UNCHANGED pcK
                   ELSE TrasChunks(<<"ACK">>)
    /\ UNCHANGED <<sizeK, lineasK, vaciasK, servidorK, guardadoK>>
    /\ OtrasPartesK

\* the last readline, then the file is written; raw bytes left in the port
\* are what readline returns, and their decode() may raise
K_LeerFinal ==
    /\ pcK = "esp_final"
    /\ IF bytesK > 0
       THEN /\ bytesK' = 0
            /\ UNCHANGED <<lineasK, vaciasK>>
            /\ \E decodifica \in BOOLEAN :
                   IF decodifica
                   THEN pcK' = "guardado" /\ guardadoK' = recibidoK
                   ELSE pcK' = "excepcion" /\ UNCHANGED guardadoK
       ELSE /\ IF lineasK = <<>>
               THEN LecturaVacia /\ UNCHANGED lineasK
               ELSE lineasK' = Tail(lineasK) /\ UNCHANGED vaciasK
            /\ pcK' = "guardado"
            /\ guardadoK' = recibidoK
            /\ UNCHANGED bytesK
    /\ UNCHANGED <<sizeK, recibidoK, escritosK, servidorK>>
    /\ OtrasPartesK

\* the server writes a line
K_ServidorLinea ==
    /\ pcK \in {"esp_header", "esp_final"}
    /\ servidorK < MaxServidor
    /\ servidorK' = servidorK + 1
    /\ \E l \in LineasServidor : lineasK' = Append(lineasK, l)
    /\ UNCHANGED <<pcK, sizeK, recibidoK, bytesK, vaciasK, escritosK, guardadoK>>
    /\ OtrasPartesK

\* the server writes raw bytes
K_ServidorBytes ==
    /\ pcK = "chunks"
    /\ servidorK < MaxServidor
    /\ servidorK' = servidorK + 1
    /\ \E n \in BloquesServidor : bytesK' = bytesK + n
    /\ UNCHANGED <<pcK, sizeK, recibidoK, lineasK, vaciasK, escritosK, guardadoK>>
    /\ OtrasPartesK

InitK ==
    /\ modo = "FTM" /\ verificar_checksum = TRUE /\ tamano_total = 0
    /\ ReposoM
    /\ tamano = 0 /\ seed = 0 /\ logger = TRUE
    /\ ReposoP
    /\ ReposoX
    /\ compresion_habilitada = FALSE /\ callback_progreso = FALSE /\ espacio_libre = 0
    /\ ReposoF
    /\ lanzanG = {}
    /\ ReposoG
    /\ ReposoK
    /\ alfabetoD = {} /\ tabla_comandos = <<>> /\ ReposoD /\ ReposoL /\ ReposoU

ClienteK == K_Iniciar \/ K_LeerHeader \/ K_LeerChunk \/ K_LeerFinal

NextK ==
    \/ K_Iniciar
    \/ K_LeerHeader
    \/ K_LeerChunk
    \/ K_LeerFinal
    \/ K_ServidorLinea
    \/ K_ServidorBytes

SpecK == InitK /\ [][NextK]_vars

\* the client's thread keeps running: whenever a step of recibir_archivo
\* would change the state, one is eventually taken
SpecKFair == SpecK /\ WF_vars(ClienteK)

\* ------------------------------------------------------------ claims, part K
\* C19: every wait for a token is bounded, so a session always reaches a
\* terminal state: recibir_archivo eventually returns or raises.
C19_Termina == <>(pcK \in TerminalK)

\* the same for a server that does send a header: once a line of two or
\* more fields waits in the port, recibir_archivo eventually returns or raises
C19_TerminaConHeader ==
    (\E i \in 1..Len(lineasK) : lineasK[i].campos >= 2) ~> (pcK \in TerminalK)

\* ============================================================ part D
\* UARTHandler as command dispatcher: registrar_comando, the line framer of
\* _procesar_datos_recibidos and _procesar_comando.  Text is kept as
\* sequences of characters.
OtrasPartesD == UNCHANGED <<varsP, varsM, varsX, varsF, varsG, varsK, varsL, varsU>>

\* the callbacks: two that return a reply, one that returns no reply, one
\* that raises
Handlers == {"h_ok", "h_ok2", "h_vacio", "h_raise"}

Hace(h) ==
    CASE h \in {"h_ok", "h_ok2"} -> "ok"
      [] h = "h_vacio" -> "vacio"
      [] h = "h_raise" -> "raise"

\* str.split(c)
RECURSIVE Partir(_, _)
Partir(s, c) ==
    LET i == Find(s, c)
    IN  IF i = 0 THEN <<s>>
        ELSE <<SubSeq(s, 1, i - 1)>> \o Partir(SubSeq(s, i + 1, Len(s)), c)

\* ComandoUART.from_string
from_string(linea) ==
    LET partes == IF Find(linea, ":") # 0 THEN Partir(Strip(linea), ":")
                  ELSE <<Strip(linea)>>
    IN  [comando |-> Lower(partes[1]),
         parametros |-> IF Len(partes) > 1 THEN Tail(partes) ELSE <<>>]

\* the keys of the table, in insertion order
Claves(tabla) == [i \in 1..Len(tabla) |-> tabla[i].nombre]

\* place of a key in the table, 0 when it is not a key
Lugar(tabla, nombre) ==
    IF \E i \in 1..Len(tabla) : tabla[i].nombre = nombre
    THEN CHOOSE i \in 1..Len(tabla) : tabla[i].nombre = nombre
    ELSE 0

\* callbacks_comandos[comando.lower()] = callback
registrar_comando_lit(tabla, comando, callback) ==
    LET clave == comando
        i == Lugar(tabla, clave)
    IN  IF i = 0 THEN Append(tabla, [nombre |-> clave, h |-> callback])
        ELSE [tabla EXCEPT ![i] = [nombre |-> clave, h |-> callback]]

registrar_comando(tabla, comando, callback) ==
    LET clave == Lower(comando)
        i == Lugar(tabla, clave)
    IN  IF i = 0 THEN Append(tabla, [nombre |-> clave, h |-> callback])
        ELSE [tabla EXCEPT ![i] = [nombre |-> clave, h |-> callback]]

\* a message passed to enviar_mensaje: its kind, the command name in it, the
\* handler that produced it and (for UNKNOWN_COMMAND) the names it lists
MensajeD(t, comando, h, lista) == [t |-> t, comando |-> comando, h |-> h, lista |-> lista]

\* _procesar_comando(linea) with the table `tabla`: what it passes to
\* enviar_mensaje and what it adds to comandos_procesados
procesar_comando_cuenta(tabla, linea) ==
    LET c == from_string(linea)
        i == Lugar(tabla, c.comando)
    IN  IF i # 0
        THEN CASE Hace(tabla[i].h) = "ok" ->
                    [linea |-> linea, comando |-> c.comando, parametros |-> c.parametros,
                     resultado |-> "ok", h |-> tabla[i].h, suma |-> 1,
                     mensajes |-> <<MensajeD("RESP", c.comando, tabla[i].h, <<>>)>>]
               [] Hace(tabla[i].h) = "vacio" ->
                    [linea |-> linea, comando |-> c.comando, parametros |-> c.parametros,
                     resultado |-> "vacio", h |-> tabla[i].h, suma |-> 1,
                     mensajes |-> <<>>]
               [] Hace(tabla[i].h) = "raise" ->
                    [linea |-> linea, comando |-> c.comando, parametros |-> c.parametros,
                     resultado |-> "raise", h |-> tabla[i].h, suma |-> 1,
                     mensajes |-> <<MensajeD("ERROR|PROCESSING", c.comando, "", <<>>)>>]
        ELSE [linea |-> linea, comando |-> c.comando, parametros |-> c.parametros,
              resultado |-> "unknown", h |-> "", suma |-> 1,
              mensajes |-> <<MensajeD("ERROR|UNKNOWN_COMMAND", c.comando, "", Claves(tabla))>>]

procesar_comando(tabla, linea) ==
    LET c == from_string(linea)
        i == Lugar(tabla, c.comando)
    IN  IF i # 0
        THEN CASE Hace(tabla[i].h) = "ok" ->
                    [linea |-> linea, comando |-> c.comando, parametros |-> c.parametros,
                     resultado |-> "ok", h |-> tabla[i].h, suma |-> 1,
                     mensajes |-> <<MensajeD("RESP", c.comando, tabla[i].h, <<>>)>>]
               [] Hace(tabla[i].h) = "vacio" ->
                    [linea |-> linea, comando |-> c.comando, parametros |-> c.parametros,
                     resultado |-> "vacio", h |-> tabla[i].h, suma |-> 1,
                     mensajes |-> <<>>]
               [] Hace(tabla[i].h) = "raise" ->
                    [linea |-> linea, comando |-> c.comando, parametros |-> c.parametros,
                     resultado |-> "raise", h |-> tabla[i].h, suma |-> 0,
                     mensajes |-> <<MensajeD("ERROR|PROCESSING", c.comando, "", <<>>)>>]
        ELSE [linea |-> linea, comando |-> c.comando, parametros |-> c.parametros,
              resultado |-> "unknown", h |-> "", suma |-> 0,
              mensajes |-> <<MensajeD("ERROR|UNKNOWN_COMMAND", c.comando, "", Claves(tabla))>>]

\* all messages of a sequence of dispatches, in order
RECURSIVE Mensajes(_)
Mensajes(ds) == IF ds = <<>> THEN <<>> ELSE Head(ds).mensajes \o Mensajes(Tail(ds))

\* what a sequence of dispatches adds to comandos_procesados
RECURSIVE Sumas(_)
Sumas(ds) == IF ds = <<>> THEN 0 ELSE Head(ds).suma + Sumas(Tail(ds))

\* the other end types a character
\* characters received and registrations made so far
EventosD == Len(recibidoD) + Len(rxD) + Len(registrosD)

D_Llega ==
    /\ EventosD < MaxBytesD
    /\ \E c \in alfabetoD : rxD' = Append(rxD, c)
    /\ UNCHANGED <<tabla_comandos, comandos_procesados, buffer_entradaD, conexion_abierta,
                   recibidoD, salidaD, despachos, alfabetoD, registrosD>>
    /\ OtrasPartesD

\* the dispatches up to and including the first whose callback raised
RECURSIVE HastaExcepcion(_)
HastaExcepcion(ds) ==
    IF ds = <<>> THEN <<>>
    ELSE IF Head(ds).resultado = "raise" THEN <<Head(ds)>>
    ELSE <<Head(ds)>> \o HastaExcepcion(Tail(ds))

D_Leer_propaga ==
    /\ conexion_abierta
    /\ rxD # <<>>
    /\ rxD' = <<>>
    /\ recibidoD' = recibidoD \o rxD
    /\ LET r == SplitLines(buffer_entradaD \o rxD)
           ds == HastaExcepcion([i \in 1..Len(r.lineas) |->
                                    procesar_comando(tabla_comandos, r.lineas[i])])
       IN  /\ buffer_entradaD' = r.resto
           /\ despachos' = despachos \o ds
           /\ salidaD' = salidaD \o Mensajes(ds)
           /\ comandos_procesados' = comandos_procesados + Sumas(ds)
    /\ UNCHANGED <<tabla_comandos, conexion_abierta, alfabetoD, registrosD>>
    /\ OtrasPartesD

\* one pass of _bucle_lectura with the port open: everything that waits is
\* read and _procesar_datos_recibidos dispatches the complete lines
D_Leer ==
    /\ conexion_abierta
    /\ rxD # <<>>
    /\ rxD' = <<>>
    /\ recibidoD' = recibidoD \o rxD
    /\ LET r == SplitLines(buffer_entradaD \o rxD)
           ds == [i \in 1..Len(r.lineas) |-> procesar_comando(tabla_comandos, r.lineas[i])]
       IN  /\ buffer_entradaD' = r.resto
           /\ despachos' = despachos \o ds
           /\ salidaD' = salidaD \o Mensajes(ds)
           /\ comandos_procesados' = comandos_procesados + Sumas(ds)
    /\ UNCHANGED <<tabla_comandos, conexion_abierta, alfabetoD, registrosD>>
    /\ OtrasPartesD

\* the port closes, or _intentar_reconexion opens it again
D_Conexion ==
    /\ conexion_abierta' = ~conexion_abierta
    /\ UNCHANGED <<tabla_comandos, comandos_procesados, buffer_entradaD, rxD, recibidoD,
                   salidaD, despachos, alfabetoD, registrosD>>
    /\ OtrasPartesD

\* registrar_comando(comando, callback)
NombresRegistro == {<<"t">>, <<"T">>, <<"s">>}

D_Registrar ==
    /\ Len(registrosD) < MaxRegistros
    /\ EventosD < MaxBytesD
    /\ \E comando \in NombresRegistro, callback \in Handlers :
           /\ tabla_comandos' = registrar_comando(tabla_comandos, comando, callback)
           /\ registrosD' = Append(registrosD, [comando |-> comando, callback |-> callback])
    /\ UNCHANGED <<comandos_procesados, buffer_entradaD, conexion_abierta, rxD, recibidoD,
                   salidaD, despachos, alfabetoD>>
    /\ OtrasPartesD

OtrasEnReposo ==
    /\ modo = "FTM" /\ verificar_checksum = TRUE /\ tamano_total = 0
    /\ ReposoM
    /\ tamano = 0 /\ seed = 0 /\ logger = TRUE
    /\ ReposoP
    /\ ReposoX
    /\ compresion_habilitada = FALSE /\ callback_progreso = FALSE /\ espacio_libre = 0
    /\ ReposoF
    /\ lanzanG = {}
    /\ ReposoG
    /\ ReposoK

\* the table after the daemon registered its commands: "t" answers, "s"
\* answers nothing, "e" raises
TablaDaemon ==
    registrar_comando(registrar_comando(registrar_comando(<<>>, <<"T">>, "h_ok"),
                                        <<"s">>, "h_vacio"), <<"e">>, "h_raise")

\* the dispatcher with the daemon's commands registered
InitD ==
    /\ OtrasEnReposo
    /\ ReposoD /\ ReposoL /\ ReposoU
    /\ tabla_comandos = TablaDaemon
    /\ alfabetoD = {"t", "T", "s", "e", "x", ":", "\r", "\n"}

NextD ==
    \/ D_Llega
    \/ D_Leer
    \/ D_Conexion

SpecD == InitD /\ [][NextD]_vars

\* the dispatcher while commands are being registered
InitR ==
    /\ OtrasEnReposo
    /\ ReposoD /\ ReposoL /\ ReposoU
    /\ tabla_comandos = <<>>
    /\ alfabetoD = {"t", "T", "\n"}

NextR ==
    \/ D_Registrar
    \/ D_Llega
    \/ D_Leer
    \/ D_Conexion

SpecR == InitR /\ [][NextR]_vars

\* ------------------------------------------------------------ claims, part D
\* the calls of _procesar_comando and the messages of this step
NuevosD == SubSeq(despachos', Len(despachos) + 1, Len(despachos'))
NuevaSalida == SubSeq(salidaD', Len(salidaD) + 1, Len(salidaD'))

NombresRegistrados == {tabla_comandos[i].nombre : i \in 1..Len(tabla_comandos)}

\* C22: in every pass of the reader, each line whose command name is not
\* registered passes to enviar_mensaje exactly one message, the
\* ERROR|UNKNOWN_COMMAND that names the command and lists the registered
\* names, and adds nothing to comandos_procesados; a pass that dispatches
\* only such lines leaves comandos_procesados, the table of handlers and the
\* transfer sessions as they were.
C22_Step ==
    /\ NuevaSalida = Mensajes(NuevosD)
    /\ comandos_procesados' = comandos_procesados + Sumas(NuevosD)
    /\ \A i \in 1..Len(NuevosD) :
          NuevosD[i].comando \notin NombresRegistrados =>
              /\ NuevosD[i].mensajes =
                     <<[t |-> "ERROR|UNKNOWN_COMMAND", comando |-> NuevosD[i].comando,
                        h |-> "",
                        lista |-> [j \in 1..Len(tabla_comandos) |-> tabla_comandos[j].nombre]]>>
              /\ NuevosD[i].suma = 0
    /\ (NuevosD # <<>> /\ \A i \in 1..Len(NuevosD) : NuevosD[i].comando \notin NombresRegistrados)
       => UNCHANGED <<comandos_procesados, tabla_comandos, varsM, varsG>>

LineasDe(ds) == [i \in 1..Len(ds) |-> ds[i].linea]

\* C23: a call of _procesar_comando whose callback raises passes exactly one
\* message ERROR|PROCESSING to enviar_mensaje, and the pass goes on: every
\* complete line of the buffer is dispatched in that pass, each with its own
\* messages, whether or not a callback before it raised.
C23_Step ==
    rxD' # rxD /\ rxD' = <<>> =>
        /\ LineasDe(NuevosD) = SplitLines(buffer_entradaD \o rxD).lineas
        /\ NuevaSalida = Mensajes(NuevosD)
        /\ \A i \in 1..Len(NuevosD) :
              NuevosD[i].resultado = "raise" =>
                  NuevosD[i].mensajes =
                      <<[t |-> "ERROR|PROCESSING", comando |-> NuevosD[i].comando,
                         h |-> "", lista |-> <<>>]>>

C23_HandlerRaises == [][C23_Step]_vars

\* the callback of e raised and the line t after it was answered
C23_Witness ==
    /\ recibidoD = <<"e", "\n", "t", "\n">>
    /\ Len(despachos) = 2
    /\ despachos[1].resultado = "raise" /\ despachos[2].resultado = "ok"
    /\ salidaD = <<MensajeD("ERROR|PROCESSING", <<"e">>, "", <<>>),
                   MensajeD("RESP", <<"t">>, "h_ok", <<>>)>>

\* the calls of _procesar_comando so far whose callback returned
Retornaron(ds) == {i \in 1..Len(ds) : ds[i].resultado \in {"ok", "vacio"}}

\* C24: comandos_procesados never decreases, and after every step it is the
\* number of lines dispatched so far whose registered callback returned,
\* with or without a reply; unknown commands and callbacks that raised are
\* not counted.
C24_Step ==
    /\ comandos_procesados' >= comandos_procesados
    /\ comandos_procesados' = Cardinality(Retornaron(despachos'))

C24_Counter == [][C24_Step]_vars

\* s returned no reply and was counted, e raised and was not
C24_Witness ==
    /\ Len(despachos) = 2
    /\ despachos[1].resultado = "vacio" /\ despachos[2].resultado = "raise"
    /\ comandos_procesados = 1
    /\ Len(salidaD) = 1 /\ salidaD[1].t = "ERROR|PROCESSING"

\* C25: for every dispatched line that contains ':' the command name is the
\* lower-cased text before the first ':' and there is one parameter, the
\* whole remainder of the line; a line without ':' has no parameter.
C25_SingleParameter ==
    \A i \in 1..Len(despachos) :
        LET l == despachos[i].linea
            k == Find(l, ":")
        IN  IF k # 0
            THEN /\ despachos[i].comando = Lower(SubSeq(l, 1, k - 1))
                 /\ despachos[i].parametros = <<SubSeq(l, k + 1, Len(l))>>
            ELSE /\ despachos[i].comando = Lower(l)
                 /\ despachos[i].parametros = <<>>

\* the same for lines with at most one ':'
C25_OneColon ==
    \A i \in 1..Len(despachos) :
        LET l == despachos[i].linea
            k == Find(l, ":")
        IN  (k = 0 \/ Find(SubSeq(l, k + 1, Len(l)), ":") = 0) =>
            IF k # 0
            THEN /\ despachos[i].comando = Lower(SubSeq(l, 1, k - 1))
                 /\ despachos[i].parametros = <<SubSeq(l, k + 1, Len(l))>>
            ELSE /\ despachos[i].comando = Lower(l)
                 /\ despachos[i].parametros = <<>>

\* the framer of the specification: a line ends at the first '\n' or '\r'
\* of the buffer, whichever comes first
RECURSIVE PrimerTerminador(_)
PrimerTerminador(s) ==
    LET n == Find(s, "\n")
        r == Find(s, "\r")
        i == IF n = 0 THEN r ELSE IF r = 0 THEN n ELSE Min(n, r)
    IN  IF i = 0 THEN [lineas |-> <<>>, resto |-> s]
        ELSE LET linea == Strip(SubSeq(s, 1, i - 1))
                 t == PrimerTerminador(SubSeq(s, i + 1, Len(s)))
             IN  [lineas |-> IF linea = <<>> THEN t.lineas ELSE <<linea>> \o t.lineas,
                  resto |-> t.resto]

\* C26: the lines a reader pass dispatches are those that end at the
\* terminator, '\n' or bare '\r', that occurs first in the buffered stream.
C26_Step ==
    (rxD' # rxD /\ rxD' = <<>>) =>
        LineasDe(NuevosD) = PrimerTerminador(buffer_entradaD \o rxD).lineas

C26_FirstTerminator == [][C26_Step]_vars

\* no dispatched line has a terminator inside it
C26_NoTerminatorInside ==
    \A i \in 1..Len(despachos) :
        Find(despachos[i].linea, "\r") = 0 /\ Find(despachos[i].linea, "\n") = 0

\* C27: the lines dispatched so far and the partial line kept in the buffer
\* are those of the whole stream received so far fed in one call, however
\* the stream was split over the calls.
C27_SplitIndependent ==
    /\ LineasDe(despachos) = SplitLines(recibidoD).lineas
    /\ buffer_entradaD = SplitLines(recibidoD).resto


\* the registrations of a name, whatever the letter case, among the calls so far
RegistrosDe(regs, nombre) ==
    {i \in 1..Len(regs) : Lower(regs[i].comando) = Lower(nombre)}

\* the callback of the most recent registration of a name
MasReciente(regs, nombre) ==
    LET is == RegistrosDe(regs, nombre)
    IN  regs[CHOOSE i \in is : \A j \in is : j <= i].callback

\* C28: registrar_comando stores a handler under the lower-cased name and a
\* later registration of the same name, in any letter case, replaces the
\* earlier one: after any sequence of registrations every name registered has
\* exactly one entry, under its lower-cased name, holding the callback of its
\* most recent registration, and a line naming it in any letter case is
\* dispatched to that callback
C28_Step ==
    /\ \A i, j \in 1..Len(tabla_comandos') :
           tabla_comandos'[i].nombre = tabla_comandos'[j].nombre => i = j
    /\ \A i \in 1..Len(tabla_comandos') :
           /\ tabla_comandos'[i].nombre = Lower(tabla_comandos'[i].nombre)
           /\ RegistrosDe(registrosD', tabla_comandos'[i].nombre) # {}
    /\ \A r \in 1..Len(registrosD') :
           LET i == Lugar(tabla_comandos', Lower(registrosD'[r].comando))
           IN  /\ i # 0
               /\ tabla_comandos'[i].h = MasReciente(registrosD', registrosD'[r].comando)
    /\ \A k \in 1..Len(NuevosD) :
           LET d == NuevosD[k]
               nombre == from_string(d.linea).comando
           IN  IF RegistrosDe(registrosD, nombre) # {}
               THEN /\ d.resultado # "unknown"
                    /\ d.h = MasReciente(registrosD, nombre)
               ELSE d.resultado = "unknown"

C28_LastRegistration == [][C28_Step]_vars

\* "t" was registered, then "T" with another callback, and the line "T" was
\* dispatched to the second callback
C28_Witness ==
    /\ Len(registrosD) = 2
    /\ registrosD[1] = [comando |-> <<"t">>, callback |-> "h_ok"]
    /\ registrosD[2] = [comando |-> <<"T">>, callback |-> "h_ok2"]
    /\ \E k \in 1..Len(despachos) :
           /\ despachos[k].linea = <<"T">>
           /\ despachos[k].h = "h_ok2"
           /\ despachos[k].resultado = "ok"


\* ------------------------------------------- claims, part P: one lost ACK
\* the only fault so far is one ACK dropped by the link
SoloAckPerdido == perdidas = <<"ACK">> /\ faults = 1

\* the receiver reads the header of the chunk it acknowledged last
LeeRetransmision ==
    /\ pcR = "esp_chunk"
    /\ s2r # <<>>
    /\ s2r' = Tail(s2r)
    /\ EsLinea(Head(s2r), "CHUNK")
    /\ acks # <<>>
    /\ Head(s2r).a = acks[Len(acks)]

\* C21: if a single ACK is lost and every later frame is delivered, the
\* retransmission of that chunk (same sequence number) is accepted by the
\* receiver: it does not answer the retransmitted header with NACK, and does
\* not store the payload a second time
C21_Step ==
    (SoloAckPerdido /\ LeeRetransmision)
        => /\ r2s' # Append(r2s, "NACK")
           /\ pcR' # "fallo"
           /\ Len(datos_completos') <= tamano

C21_RetransmissionAccepted == [][C21_Step]_vars

\* C21, second half: after a single lost ACK the transfer still completes, so
\* neither side ends in failure
C21_NoFailure == SoloAckPerdido => (pcS # "fallo" /\ pcR # "fallo")

\* with a logger the sender does retransmit the unacknowledged chunk, and only
\* that one: every header written while one ACK is the only fault carries the
\* sequence number of the sender's current chunk
C21_OnlyThatChunk ==
    (SoloAckPerdido /\ logger)
        => \A i \in 1..Len(s2r) : EsLinea(s2r[i], "CHUNK") => s2r[i].a = chunk_num


\* ------------------------------------ part F: any chunk passed to recibir_chunk
\* recibir_chunk is called again with the chunk it was given last (a caller
\* that repeats a chunk): the data are appended and counted like any other
F_RecibirRepetido ==
    /\ pcF = "recibiendo" /\ recibiendo
    /\ enviadosF > 0
    /\ chunks_recibidos < ChunksF + MaxRepetidos
    /\ LET datos == LeerChunk(ArchivoAEnviar, (enviadosF - 1) * CHUNK_SIZE)
       IN  /\ recibir_chunk(datos)
           /\ recibidoF' = recibidoF \o datos
    /\ UNCHANGED <<pcF, checksum_origen, enviadosF, corruptos, fs_final>>
    /\ UnchangedConfigF /\ OtrasPartesF

NextFR ==
    \/ F_Header
    \/ F_HeaderEnProgreso
    \/ F_RecibirChunk
    \/ F_RecibirRepetido
    \/ F_FinalizarMover
    \/ F_FinalizarVerificar

SpecFR == InitF /\ [][NextFR]_vars

\* ------------------------------------------------- claims, part F: byte counts

\* C29: at all times bytes_recibidos of FileReceiver is at most the size the
\* header announced (tamano_comprimido for a compressed header, else tamano),
\* whatever sequence of chunks is passed to recibir_chunk
C29_ReceivedBounded ==
    recibiendo => bytes_recibidos <= TamanoAnunciado(info_archivo_actual)

\* C29, sender: progreso_bytes of a sending session is at most the size of the
\* file placed on the wire
C29_SentBounded == progreso_bytes <= tamano_total

\* C29, receiver, when recibir_chunk is passed exactly the chunks of the file
C29_ReceivedBounded_Archivo ==
    (recibiendo /\ chunks_recibidos = enviadosF)
        => bytes_recibidos <= TamanoAnunciado(info_archivo_actual)


\* --------------------------------- part G: the processor thread and its clients
\* one pass of the processor thread: _bucle_procesador, _procesar_tarea,
\* _ejecutar_envio
ProcesadorG ==
    \/ G_Tomar
    \/ G_PrepararHeader
    \/ G_EnviarHeader
    \/ G_Ready
    \/ G_EnviarChunk
    \/ G_Ack
    \/ G_FinChunks
    \/ G_Done
    \/ G_MoverAHistorial

\* the manager while requests arrive and sessions run, succeed or fail
NextGE ==
    \/ G_Descargar
    \/ G_Tomar
    \/ G_PrepararHeader
    \/ G_EnviarHeader
    \/ G_Ready
    \/ G_EnviarChunk
    \/ G_Ack
    \/ G_FinChunks
    \/ G_Done
    \/ G_MoverAHistorial
    \/ G_Detener

SpecGE == InitG /\ [][NextGE]_vars

\* the processor thread runs as long as the process does
SpecGEFair == SpecGE /\ WF_vars(ProcesadorG)


\* ------------------------------------------- claims, part G: a failed session
\* the ids waiting in the queue
EnCola == {cola_transferencias[i] : i \in 1..Len(cola_transferencias)}

\* the sessions whose state becomes ERROR in this step
Fallan == {id \in IdsG : estado_de[id] # "ERROR" /\ estado_de'[id] = "ERROR"}

\* C30, the step: a session that ends in ERROR terminates only itself: the
\* step leaves the processor running and on its way back to its loop, leaves
\* the queue and every other session as they were, and takes no answer back
C30_Step ==
    Fallan # {}
        => /\ Fallan = {actualG}
           /\ ejecutando' = ejecutando
           /\ pcG' = "historial"
           /\ cola_transferencias' = cola_transferencias
           /\ transferencias_activas' = transferencias_activas
           /\ \A id \in IdsG \ Fallan : estado_de'[id] = estado_de[id]
           /\ respuestasG' = respuestasG

\* C30, afterwards: a session that waits in the queue when an earlier one has
\* ended in ERROR is still taken from the queue and run to a terminal state
\* (unless the manager is stopped)
C30_Despues ==
    \A e \in IdsG : \A id \in IdsG :
        (estado_de[e] = "ERROR" /\ e < id /\ id \in EnCola /\ ejecutando)
            ~> (~ejecutando
                \/ (id \notin EnCola /\ id \notin transferencias_activas
                    /\ estado_de[id] \in TerminalesG))

\* C30, the dispatcher: after a session ended in ERROR the command handler
\* still answers
C30_Responde ==
    ((\E e \in IdsG : estado_de[e] = "ERROR") /\ Len(respuestasG) < MaxPedidos)
        => ENABLED G_Descargar

C30_ErrorEndsOnlyItself == [][C30_Step]_vars /\ C30_Despues /\ []C30_Responde

\* session 1 ended in ERROR, session 2 was then run to COMPLETADA, and the
\* dispatcher answered a third command after that
C30_Witness ==
    /\ estado_de[1] = "ERROR"
    /\ estado_de[2] = "COMPLETADA"
    /\ historial_transferencias = <<1, 2>>
    /\ Len(respuestasG) = 3
    /\ respuestasG[3].t = "ERROR|FILE_NOT_FOUND"
    /\ ejecutando


\* ---------------------------------------- part G: the history over many sessions
\* a whole session, from programar_envio to _mover_a_historial, of which only
\* the id is kept
H_Sesion ==
    /\ creadas < max_historial + MaxExtraH
    /\ creadas' = creadas + 1
    /\ historial_transferencias' = mover_a_historial(historial_transferencias, creadas + 1)
    /\ UNCHANGED <<ejecutando, transferencias_activas, cola_transferencias, estado_de,
                   chunks_de, pcG, actualG, chunk_numG, intentoG, escritosG, respuestasG,
                   canceladas, transferencias_exitosas,
                   transferencias_fallidas, lanzanG>>
    /\ OtrasPartesG

NextH == H_Sesion

SpecH == InitG /\ [][NextH]_vars

\* ------------------------------------------------ claims, part G: the history
EnHistorial == {historial_transferencias[i] : i \in 1..Len(historial_transferencias)}

\* C31: when a session reaches a terminal state it is removed from
\* transferencias_activas and appended to historial_transferencias: a session
\* in a terminal state that is still in transferencias_activas is the one
\* the processor thread is moving to the history
C31_MovedWhenTerminal ==
    \A id \in transferencias_activas :
        estado_de[id] \in TerminalesG => (actualG = id /\ pcG = "historial")

\* C31, exactly once: no session is twice in the history, and none is in the
\* history and in transferencias_activas
C31_Once ==
    /\ \A i, j \in 1..Len(historial_transferencias) :
           historial_transferencias[i] = historial_transferencias[j] => i = j
    /\ EnHistorial \cap transferencias_activas = {}

\* C31, every session in the history is in a terminal state
C31_HistoryTerminal == \A id \in EnHistorial : estado_de[id] \in TerminalesG

\* C31, the limit: the history holds the last max_historial sessions that
\* ended, in the order they ended
C31_Limit ==
    /\ Len(historial_transferencias) = Min(creadas, max_historial)
    /\ \A i \in 1..Len(historial_transferencias) :
           historial_transferencias[i] = creadas - Len(historial_transferencias) + i


\* ------------------------------------------ claims, part F: the space check
\* the reply of this step, "" when the step replies nothing
ReplyF == IF Len(respuestasF') = Len(respuestasF) + 1
          THEN respuestasF'[Len(respuestasF')] ELSE ""

ErroresF == {"ERROR|Recepcion ya en progreso", "ERROR|excepcion",
             "ERROR|Espacio insuficiente", "ERROR|Checksum invalido",
             "ERROR|No hay recepcion activa"}

\* C32: procesar_header replies READY only if the free space is at least the
\* number of bytes that will be received (tamano, or tamano_comprimido for a
\* compressed header) plus the margin; otherwise it replies ERROR and no
\* reception is started
C32_Step ==
    (~recibiendo /\ ReplyF # "" /\ pcF = "esp_header")
        => IF ReplyF = "READY"
           THEN /\ recibiendo'
                /\ espacio_libre >= TamanoAnunciado(info_archivo_actual') + MARGEN
           ELSE /\ ReplyF \in ErroresF
                /\ ~recibiendo'

C32_SpaceChecked == [][C32_Step]_vars

\* C32 for compressed headers only
C32_SpaceChecked_Comprimido == [][compresion_habilitada => C32_Step]_vars


\* ------------------------------- part F: FileReceiver, its methods in any order
\* finalizar_recepcion as one call
finalizar_recepcion ==
    IF ~recibiendo \/ info_archivo_actual = SinInfo
    THEN /\ ResponderF("ERROR|No hay recepcion activa")
         /\ UnchangedRecepcion
         /\ UNCHANGED <<fs_temp, fs_final>>
    ELSE IF ~fs_temp.existe
    THEN \* open / rename of a file that was never written raises
         /\ LimpiarRecepcion(fs_temp)
         /\ ResponderF("ERROR|excepcion")
         /\ UNCHANGED fs_final
    ELSE LET comp == info_archivo_actual.comprimido
             r == Descomprimir(fs_temp.datos)
             movido == IF ~comp THEN fs_temp
                       ELSE IF r.creado THEN Fichero(r.datos) ELSE fs_final
         IN  IF comp /\ ~r.ok
             THEN /\ fs_final' = movido
                  /\ LimpiarRecepcion(fs_temp)
                  /\ ResponderF("ERROR|excepcion")
             ELSE /\ LimpiarRecepcion(Ausente)
                  /\ IF /\ verificar_checksum
                        /\ info_archivo_actual.checksum # <<>>
                        /\ Checksum(movido.datos) # info_archivo_actual.checksum
                     THEN /\ fs_final' = Ausente
                          /\ ResponderF("ERROR|Checksum invalido")
                     ELSE /\ fs_final' = movido
                          /\ ResponderF("DONE")

\* cancelar_recepcion that only clears the flag
cancelar_recepcion_flag ==
    IF recibiendo
    THEN /\ recibiendo' = FALSE
         /\ UNCHANGED <<info_archivo_actual, archivo_temporal, bytes_recibidos,
                        chunks_recibidos, fs_temp>>
    ELSE /\ UnchangedRecepcion
         /\ UNCHANGED fs_temp

\* cancelar_recepcion
cancelar_recepcion ==
    IF recibiendo
    THEN LimpiarRecepcion(fs_temp)
    ELSE /\ UnchangedRecepcion
         /\ UNCHANGED fs_temp

\* what the caller passes: the one-byte file <<7>>, as it is and compressed
DatoA == <<7>>
ChunksA == {DatoA, Comprimir(DatoA)}

\* headers: of the file as it is, of the compressed file, one whose size is
\* not a number, and one that is no header
HeadersA ==
    {CrearHeader("foto", Len(DatoA), Checksum(DatoA), FALSE, Len(DatoA)),
     CrearHeader("foto", Len(DatoA), Checksum(DatoA), TRUE, Len(Comprimir(DatoA))),
     <<"FILE", "foto", <<-1>>, Checksum(DatoA)>>,
     <<"PING">>}

UnchangedDriverF == UNCHANGED <<pcF, checksum_origen, enviadosF, corruptos>>

A_Header ==
    /\ Len(respuestasF) < MaxLlamadasA
    /\ \E campos \in HeadersA : procesar_header(campos)
    /\ UNCHANGED <<fs_temp, fs_final, recibidoF>>
    /\ UnchangedDriverF /\ UnchangedConfigF /\ OtrasPartesF

A_Chunk ==
    /\ Len(respuestasF) < MaxLlamadasA
    /\ \E datos \in ChunksA :
           /\ recibir_chunk(datos)
           /\ recibidoF' = recibidoF \o datos
    /\ UNCHANGED fs_final
    /\ UnchangedDriverF /\ UnchangedConfigF /\ OtrasPartesF

A_Finalizar ==
    /\ Len(respuestasF) < MaxLlamadasA
    /\ finalizar_recepcion
    /\ UNCHANGED recibidoF
    /\ UnchangedDriverF /\ UnchangedConfigF /\ OtrasPartesF

A_Cancelar ==
    /\ recibiendo
    /\ cancelar_recepcion
    /\ UNCHANGED <<fs_final, recibidoF, respuestasF>>
    /\ UnchangedDriverF /\ UnchangedConfigF /\ OtrasPartesF

InitA ==
    /\ tamano = 1 /\ seed = 0 /\ logger = TRUE
    /\ ReposoP
    /\ modo = "FTM" /\ verificar_checksum \in BOOLEAN /\ tamano_total = 0
    /\ ReposoM
    /\ ReposoX
    /\ compresion_habilitada = FALSE
    /\ callback_progreso \in BOOLEAN
    /\ espacio_libre \in EspaciosLibres
    /\ ReposoF
    /\ lanzanG = {}
    /\ ReposoG
    /\ ReposoK
    /\ alfabetoD = {} /\ tabla_comandos = <<>> /\ ReposoD /\ ReposoL /\ ReposoU

NextA ==
    \/ A_Header
    \/ A_Chunk
    \/ A_Finalizar
    \/ A_Cancelar

SpecA == InitA /\ [][NextA]_vars


\* --------------------------------------- claims, part F: the methods in any order
\* the data passed to recibir_chunk in this step
DatosDelPaso == SubSeq(recibidoF', Len(recibidoF) + 1, Len(recibidoF'))

\* C34: while a reception is active recibir_chunk(d) appends d to the
\* temporary file, adds len(d) to bytes_recibidos and 1 to chunks_recibidos and
\* replies ACK, with or without a progress callback and for uncompressed as
\* for compressed headers; when no reception is active it replies NACK and
\* changes nothing
C34_Step ==
    recibidoF' # recibidoF
        => IF recibiendo
           THEN /\ fs_temp' = Fichero(fs_temp.datos \o DatosDelPaso)
                /\ bytes_recibidos' = bytes_recibidos + Len(DatosDelPaso)
                /\ chunks_recibidos' = chunks_recibidos + 1
                /\ ReplyF = "ACK"
                /\ recibiendo'
           ELSE /\ ReplyF = "NACK"
                /\ UnchangedRecepcion
                /\ UNCHANGED <<fs_temp, fs_final>>

C34_ChunkAppended == [][C34_Step]_vars

\* C34 when no progress callback is registered
C34_ChunkAppended_SinCallback == [][~callback_progreso => C34_Step]_vars

\* C34 when the header is a compressed one
C34_ChunkAppended_Comprimido ==
    [][(recibiendo /\ info_archivo_actual.comprimido) => C34_Step]_vars


\* C35: a NACK sent by recibir_chunk during an active reception leaves the
\* reception active, with the header, the temporary file path, the bytes and
\* the counters received so far intact
C35_Step ==
    (recibidoF' # recibidoF /\ recibiendo /\ ReplyF = "NACK")
        => /\ UnchangedRecepcion
           /\ fs_temp'.existe = fs_temp.existe

C35_NackKeepsReception == [][C35_Step]_vars

\* C35, the retransmission: a chunk passed right after a NACK that was sent
\* during an active reception is acknowledged
C35_RetransmissionStep ==
    (/\ recibidoF' # recibidoF
     /\ Len(respuestasF) >= 2
     /\ respuestasF[Len(respuestasF)] = "NACK"
     /\ respuestasF[Len(respuestasF) - 1] \in {"READY", "ACK"})
        => ReplyF = "ACK"

C35_RetransmissionAccepted == [][C35_RetransmissionStep]_vars


\* the two states of a FileReceiver between calls
IdleF ==
    /\ ~recibiendo
    /\ info_archivo_actual = SinInfo
    /\ ~archivo_temporal
    /\ bytes_recibidos = 0
    /\ chunks_recibidos = 0

ReceivingF ==
    /\ recibiendo
    /\ info_archivo_actual # SinInfo
    /\ archivo_temporal

\* the replies of finalizar_recepcion; "ERROR|excepcion" is also the reply of
\* procesar_header to a header it cannot parse
FinalizaA ==
    /\ ReplyF \in {"DONE", "ERROR|Checksum invalido", "ERROR|No hay recepcion activa",
                   "ERROR|excepcion"}
    /\ recibidoF' = recibidoF

\* a step of cancelar_recepcion during a reception
CancelaA == recibiendo /\ ReplyF = "" /\ recibidoF' = recibidoF

\* C38, between calls: the receiver is idle (recibiendo false, no header, no
\* temporary-file path, counters 0, no temporary file left) or receiving
\* (recibiendo true with header and temporary-file path set)
C38_State ==
    \/ IdleF /\ ~fs_temp.existe
    \/ ReceivingF

\* C38, the calls: finalizar_recepcion, on success and on every failure, and
\* cancelar_recepcion return it to idle with the temporary file removed
C38_Step ==
    (FinalizaA \/ CancelaA) => (IdleF' /\ ~fs_temp'.existe)

\* C38, afterwards: an idle receiver with room for the file accepts a header
C38_Accepts ==
    (~recibiendo /\ Len(respuestasF) < MaxLlamadasA /\ espacio_libre >= MARGEN + 300)
        => ENABLED (A_Header /\ recibiendo')

C38_IdleOrReceiving == [](C38_State /\ C38_Accepts) /\ [][C38_Step]_vars

\* a reception was finalized with DONE, the next was cancelled, and a third
\* header was accepted
C38_Witness ==
    /\ Len(respuestasF) = 5
    /\ respuestasF[1] = "READY" /\ respuestasF[2] = "ACK" /\ respuestasF[3] = "DONE"
    /\ respuestasF[4] = "READY" /\ respuestasF[5] = "READY"
    /\ fs_final.existe
    /\ ReceivingF


\* C39: a header that arrives while a reception is active is answered with
\* ERROR and changes nothing of the reception (header, temporary file, byte
\* and chunk counters): READY is only given by a receiver that was idle; a
\* header that fails parsing or the space check is answered with ERROR and
\* leaves the receiver idle
C39_Step ==
    /\ ReplyF = "READY" => ~recibiendo
    /\ ReplyF = "ERROR|Recepcion ya en progreso"
           => /\ recibiendo
              /\ UnchangedRecepcion
              /\ UNCHANGED <<fs_temp, fs_final>>
    /\ (~recibiendo /\ ReplyF \in {"ERROR|excepcion", "ERROR|Espacio insuficiente"}
          /\ recibidoF' = recibidoF)
           => /\ IdleF'
              /\ UNCHANGED <<fs_temp, fs_final>>

C39_HeaderRejected == [][C39_Step]_vars

\* a header that cannot be parsed was rejected by the idle receiver, and a
\* header that came after the first chunk of a reception was rejected with
\* the chunk still counted
C39_Witness ==
    /\ respuestasF = <<"ERROR|excepcion", "READY", "ACK", "ERROR|Recepcion ya en progreso">>
    /\ ReceivingF
    /\ bytes_recibidos = 1
    /\ chunks_recibidos = 1
    /\ fs_temp = Fichero(DatoA)

\* the space check failed and the receiver is idle
C39_SinEspacio ==
    /\ respuestasF = <<"ERROR|Espacio insuficiente">>
    /\ IdleF


\* ------------------------------------- claims, part P: what is stored as payload
\* C33: every payload the receiver stores and acknowledges for sequence k is
\* exactly the sender's chunk k: what the receiver has stored is a prefix of
\* the file, so no byte of a text line was stored as payload
C33_PayloadIsChunk ==
    /\ Len(datos_completos) <= tamano
    /\ \A i \in 1..Len(datos_completos) : datos_completos[i] = Archivo[i]

\* C33 with a logger: without one the sender never retransmits a header
C33_PayloadIsChunk_logger == logger => C33_PayloadIsChunk

\* C33 as long as no wait of the sender expired before the answer came
C33_PayloadIsChunk_NoFault == faults = 0 => C33_PayloadIsChunk


\* ------------------------------------------------------------------ part L
\* Who writes to conexion and under which lock.  conexion.write hands the
\* bytes of a frame to the port in pieces; two threads inside write at the
\* same time is a data race whose outcomes are the interleavings of the
\* pieces.  A frame is PartesTrama pieces, each thread writes up to
\* MaxTramasL frames.
OtrasPartesL == UNCHANGED <<varsP, varsM, varsX, varsF, varsG, varsK, varsD, varsU>>

PartesTrama == 2
MaxTramasL == 1

\* what each thread writes: text lines through UARTHandler.enviar_mensaje,
\* raw chunks through its own _enviar_chunk
EscribeL(h) ==
    IF h \in {"lectura", "heartbeat"} THEN {"linea"} ELSE {"linea", "chunk"}

\* the write sites: enviar_mensaje and FileTransferManager._enviar_chunk
\* write inside "with lock"; _enviar_chunk_con_verificacion writes the chunk
\* with transfer_lock held, which no other writer takes
ConLock(h, clase) ==
    \/ clase = "linea"
    \/ clase = "chunk" /\ h = "gestor"

\* a thread enters a write site
L_Llamar(h, clase) ==
    /\ pcL[h] = "reposo"
    /\ tramasL[h] < MaxTramasL
    /\ clase \in EscribeL(h)
    /\ claseL' = [claseL EXCEPT ![h] = clase]
    /\ tramasL' = [tramasL EXCEPT ![h] = @ + 1]
    /\ pcL' = [pcL EXCEPT ![h] = IF ConLock(h, clase) THEN "espera" ELSE "escribe"]
    /\ UNCHANGED <<lock, parteL, wire>>
    /\ OtrasPartesL

\* with self.lock: blocks until the lock is free
L_Adquirir(h) ==
    /\ pcL[h] = "espera"
    /\ lock = "libre"
    /\ lock' = h
    /\ pcL' = [pcL EXCEPT ![h] = "escribe"]
    /\ UNCHANGED <<claseL, parteL, tramasL, wire>>
    /\ OtrasPartesL

\* conexion.write: the next piece of the frame reaches the port
L_Write(h) ==
    /\ pcL[h] = "escribe"
    /\ parteL[h] < PartesTrama
    /\ wire' = Append(wire, [hilo |-> h, trama |-> tramasL[h], clase |-> claseL[h],
                             parte |-> parteL[h] + 1])
    /\ parteL' = [parteL EXCEPT ![h] = @ + 1]
    /\ UNCHANGED <<lock, pcL, claseL, tramasL>>
    /\ OtrasPartesL

\* the write returns; leaving the with block releases the lock
L_Salir(h) ==
    /\ pcL[h] = "escribe"
    /\ parteL[h] = PartesTrama
    /\ lock' = IF lock = h THEN "libre" ELSE lock
    /\ pcL' = [pcL EXCEPT ![h] = "reposo"]
    /\ parteL' = [parteL EXCEPT ![h] = 0]
    /\ UNCHANGED <<claseL, tramasL, wire>>
    /\ OtrasPartesL

InitL ==
    /\ OtrasEnReposo
    /\ alfabetoD = {} /\ tabla_comandos = <<>> /\ ReposoD
    /\ ReposoL
    /\ ReposoU

NextL ==
    \/ \E h \in HilosL, clase \in {"linea", "chunk"} : L_Llamar(h, clase)
    \/ \E h \in HilosL : L_Adquirir(h)
    \/ \E h \in HilosL : L_Write(h)
    \/ \E h \in HilosL : L_Salir(h)

SpecL == InitL /\ [][NextL]_vars

\* ------------------------------------------------------------ claims, part L
\* the frame a piece on the wire belongs to
TramaDe(p) == <<p.hilo, p.trama>>

\* C36: every write to the serial connection, text line or raw chunk, by
\* whichever thread, is made while the thread holds UARTHandler.lock, so the
\* bytes of two frames written by different threads never interleave on the
\* wire: between two pieces of one frame there is no piece of another.
C36_WritesUnderLock ==
    /\ \A h \in HilosL : pcL[h] = "escribe" => lock = h
    /\ \A i, j \in 1..Len(wire) :
         (i < j /\ TramaDe(wire[i]) = TramaDe(wire[j])) =>
            \A k \in i..j : TramaDe(wire[k]) = TramaDe(wire[i])

\* C36, the part that holds: the writes made through enviar_mensaje and
\* through FileTransferManager._enviar_chunk are made with the lock held
C36_WritesUnderLock_ConLock ==
    \A h \in HilosL : (pcL[h] = "escribe" /\ ConLock(h, claseL[h])) => lock = h

\* C36, a state where it fails: a piece of another thread's frame lies
\* between the two pieces of a raw chunk of FileTransferProtocol
C36_Interleaved ==
    \E i \in 1..Len(wire) :
        /\ i + 2 <= Len(wire)
        /\ wire[i].hilo = "protocolo" /\ wire[i].clase = "chunk" /\ wire[i].parte = 1
        /\ wire[i + 1].hilo # "protocolo"
        /\ wire[i + 2].hilo = "protocolo" /\ wire[i + 2].parte = 2


\* ----------------------------------- part G: the statistics and the callbacks
\* the manager after establecer_callbacks installed callbacks that raise
InitGC ==
    /\ modo = "FTM" /\ verificar_checksum \in BOOLEAN /\ tamano_total = 0
    /\ ReposoM
    /\ tamano = 0 /\ seed = 0 /\ logger = TRUE
    /\ ReposoP
    /\ ReposoX
    /\ compresion_habilitada = FALSE /\ callback_progreso = FALSE /\ espacio_libre = 0
    /\ ReposoF
    /\ lanzanG \in (SUBSET {"completada", "error"}) \ {{}}
    /\ ReposoG
    /\ ReposoK
    /\ alfabetoD = {} /\ tabla_comandos = <<>> /\ ReposoD /\ ReposoL /\ ReposoU

SpecGC == InitGC /\ [][NextG]_vars

\* the sessions the processor thread has run to their end
Corridas == {id \in IdsG : \E i \in 1..Len(historial_transferencias) :
                               historial_transferencias[i] = id}

\* the sessions whose run has ended in state e
TerminadasEn(e) == {id \in Corridas : estado_de[id] = e}

\* C37: each session run is counted exactly once: in transferencias_exitosas
\* if and only if its final state is COMPLETADA, in transferencias_fallidas if
\* and only if its final state is ERROR, so the two counters together never
\* exceed the number of sessions run; also when a completion callback raises
\* and when cancelar_transferencia runs concurrently with the worker thread.
C37_CountedOnce ==
    pcG = "ocioso" =>
        /\ transferencias_exitosas = Cardinality(TerminadasEn("COMPLETADA"))
        /\ transferencias_fallidas = Cardinality(TerminadasEn("ERROR"))
        /\ transferencias_exitosas + transferencias_fallidas <= Cardinality(Corridas)

\* C37, the sum only
C37_SumBounded ==
    pcG = "ocioso" =>
        transferencias_exitosas + transferencias_fallidas <= Cardinality(Corridas)

\* C37 with no callback that raises: holds, with cancelar_transferencia and
\* detener running concurrently with the worker thread
C37_CountedOnce_SinExcepcion ==
    lanzanG = {} => C37_CountedOnce


\* C37 with a completion callback that raises and no other: the session is
\* counted as a success and as a failure
C37_SumBounded_Completada ==
    lanzanG = {"completada"} => C37_SumBounded


\* ------------------------------------------------------------------ part U
\* The connection state of UARTHandler: the reader thread, the heartbeat
\* thread, the command that changes the baud rate and detener.  Whether a
\* read or a write raises serial.SerialException, and whether the port can be
\* opened, is the environment's choice; at most MaxEventosU such events.
OtrasPartesU == UNCHANGED <<varsP, varsM, varsX, varsF, varsG, varsK, varsD, varsL>>

MaxEventosU == 5

\* _marcar_error_conexion called n times
marcar_error_conexion(n) ==
    /\ errores_consecutivos' = errores_consecutivos + n
    /\ estadoU' = IF n > 0 THEN "ERROR" ELSE estadoU

\* conectar: the port opened and CAMERA_READY sent (falla: the write raises
\* and enviar_mensaje marks the error), or UARTConnectionError
conectar(falla) ==
    IF puerto_disponible
    THEN /\ is_open' = TRUE
         /\ estadoU' = IF falla THEN "ERROR" ELSE "CONECTADO"
         /\ errores_consecutivos' = IF falla THEN 1 ELSE 0
    ELSE /\ is_open' = FALSE
         /\ estadoU' = "ERROR"
         /\ UNCHANGED errores_consecutivos

\* one turn of _bucle_lectura with the port open: the read, and the replies
\* of the commands read, succeed or raise SerialException
U_Lectura ==
    /\ pcU = "bucle"
    /\ ejecutandoU
    /\ is_open
    /\ \E falla \in BOOLEAN :
        IF falla
        THEN /\ eventosU < MaxEventosU
             /\ eventosU' = eventosU + 1
             /\ marcar_error_conexion(1)
        ELSE UNCHANGED <<eventosU, errores_consecutivos, estadoU>>
    /\ UNCHANGED <<is_open, ejecutandoU, puerto_disponible, pcU>>
    /\ OtrasPartesU

\* one turn of _bucle_lectura with the port closed: _intentar_reconexion up
\* to its pause
U_IntentarReconexion ==
    /\ pcU = "bucle"
    /\ ejecutandoU
    /\ ~is_open
    /\ estadoU' = "RECONECTANDO"
    /\ pcU' = "conectar"
    /\ UNCHANGED <<errores_consecutivos, is_open, ejecutandoU, puerto_disponible, eventosU>>
    /\ OtrasPartesU

\* _intentar_reconexion after the pause: conectar
U_Conectar ==
    /\ pcU = "conectar"
    /\ \E falla \in BOOLEAN :
        /\ falla => (puerto_disponible /\ eventosU < MaxEventosU)
        /\ eventosU' = IF falla THEN eventosU + 1 ELSE eventosU
        /\ conectar(falla)
    /\ pcU' = "bucle"
    /\ UNCHANGED <<ejecutandoU, puerto_disponible>>
    /\ OtrasPartesU

\* one turn of _bucle_heartbeat that sends: enviar_mensaje returns False with
\* the port closed; a write that raises marks the error in enviar_mensaje and
\* again in the loop
U_Heartbeat ==
    /\ ejecutandoU
    /\ estadoU = "CONECTADO"
    /\ eventosU < MaxEventosU
    /\ eventosU' = eventosU + 1
    /\ marcar_error_conexion(IF is_open THEN 2 ELSE 1)
    /\ UNCHANGED <<is_open, ejecutandoU, puerto_disponible, pcU>>
    /\ OtrasPartesU

\* cambiar_baudrate, called by the command handler in the reader thread:
\* desconectar, then conectar at the new rate; n of the two messages sent
\* before the port is closed raise
U_CambiarBaudrate ==
    /\ pcU = "bucle"
    /\ ejecutandoU
    /\ is_open
    /\ eventosU < MaxEventosU
    /\ eventosU' = eventosU + 1
    /\ \E n \in 0..2 :
        IF puerto_disponible
        THEN conectar(FALSE)
        ELSE /\ is_open' = FALSE
             /\ estadoU' = "ERROR"
             /\ errores_consecutivos' = errores_consecutivos + n
    /\ UNCHANGED <<ejecutandoU, puerto_disponible, pcU>>
    /\ OtrasPartesU

\* the device is unplugged or plugged in again
U_Puerto ==
    /\ eventosU < MaxEventosU
    /\ eventosU' = eventosU + 1
    /\ puerto_disponible' = ~puerto_disponible
    /\ UNCHANGED <<estadoU, errores_consecutivos, is_open, ejecutandoU, pcU>>
    /\ OtrasPartesU

\* detener: the threads are asked to end, desconectar closes the port
U_Detener ==
    /\ ejecutandoU
    /\ pcU = "bucle"
    /\ ejecutandoU' = FALSE
    /\ is_open' = FALSE
    /\ estadoU' = "DESCONECTADO"
    /\ UNCHANGED <<errores_consecutivos, puerto_disponible, pcU, eventosU>>
    /\ OtrasPartesU

InitU ==
    /\ OtrasEnReposo
    /\ alfabetoD = {} /\ tabla_comandos = <<>> /\ ReposoD
    /\ ReposoL
    /\ ReposoU

\* the steps the reader thread takes of its own accord: with the port open
\* and reads that succeed a turn of its loop changes nothing
HiloLecturaU == U_IntentarReconexion \/ U_Conectar

NextU ==
    \/ U_Lectura
    \/ U_IntentarReconexion
    \/ U_Conectar
    \/ U_Heartbeat
    \/ U_CambiarBaudrate
    \/ U_Puerto
    \/ U_Detener

SpecU == InitU /\ [][NextU]_vars

\* the reader thread keeps running; errors and commands need not happen
SpecUFair == SpecU /\ WF_vars(HiloLecturaU)

\* ------------------------------------------------------------ claims, part U
\* C40: once a connection error is marked (estado ERROR, errores_consecutivos
\* counted) while the handler runs, the handler eventually attempts
\* reconnection or is stopped: it does not stay in ERROR for ever.
C40_ErrorLeadsToReconnection ==
    (ejecutandoU /\ estadoU = "ERROR" /\ errores_consecutivos > 0)
        ~> (estadoU \in {"RECONECTANDO", "CONECTADO"} \/ ~ejecutandoU)

\* C40, restricted to an error that left the port closed: holds
C40_ErrorLeadsToReconnection_Cerrado ==
    (ejecutandoU /\ estadoU = "ERROR" /\ ~is_open /\ pcU = "bucle")
        ~> (estadoU = "RECONECTANDO" \/ ~ejecutandoU)

\* C40, second half: a reconnection that opens the port and sends
\* CAMERA_READY leaves the handler CONECTADO with errores_consecutivos = 0
C40_ReconnectionResets ==
    [][(U_Conectar /\ is_open' /\ estadoU' # "ERROR")
          => (estadoU' = "CONECTADO" /\ errores_consecutivos' = 0)]_vars

\* C40, a state where it fails: the handler runs, in ERROR with the port
\* still open, and the reader thread is at its loop
C40_StuckInError ==
    /\ ejecutandoU /\ estadoU = "ERROR" /\ errores_consecutivos > 0
    /\ is_open /\ pcU = "bucle"

====
